---------------------------- MODULE Spec2Model ----------------------------
(***************************************************************************)
(* Verification model of check-cx: the background poller (src/lib/poller.ts)*)
(* and the per-provider health checks (src/lib/providers/ai-sdk-check.ts,  *)
(* src/unnamed/part_002 = the Gemini native check).                         *)
(*                                                                         *)
(* The specifications share this module:                                   *)
(*   Spec      - the poller: module evaluation, interval-timer fires and   *)
(*               the asynchronous steps of tick(), with every provider     *)
(*               check reduced to the status it settles with;              *)
(*   CheckSpec - one batch of provider checks in full detail (adapter      *)
(*               call, ping, validation, classification);                  *)
(*   StreamSpec - the Gemini event-stream parser: the payloads of one      *)
(*               response handled in order and the text reconstructed;     *)
(*   TuneSpec  - the tunables: the environment changes while checks run    *)
(*               and the interval timer fires;                             *)
(*   CacheSpec - the client cache of the OpenAI-compatible Gemini check    *)
(*               (src/lib/providers/gemini-native.ts) under any calls;     *)
(*   StatusSpec - one checkGeminiStatus() call                             *)
(*               (src/lib/official-status/gemini.ts);                      *)
(*   FrameSpec - the line framing of the Gemini event-stream parser: the   *)
(*               lines of one body handled in order;                       *)
(*   ChunkSpec - the same parser reading the body in chunks of any size;   *)
(*   ResolveSpec - resolveGeminiUrlForAction for both attempts of a check;  *)
(*   ExtractSpec - extractGeminiText over JSON payloads;                    *)
(*   DirectiveSpec - parseModelDirective, createModel's effort and         *)
(*                 buildReasoningOptions for one configuration;            *)
(*   FetchSpec - the fetch createModel installs, called once by the SDK;  *)
(*   SummarySpec - the status counts a tick logs for one batch;             *)
(*   LiveSpec, CheckLiveSpec - Spec and CheckSpec with the fairness the    *)
(*               liveness properties need.                                 *)
(* JavaScript runs each synchronous segment to completion, so one action   *)
(* is one segment between two awaits.                                      *)
(***************************************************************************)
EXTENDS Integers, Sequences, FiniteSets, TLC

\* ------------------------------------------------------------------ bounds
\* number of interval-timer fires explored
MaxFires == 3
\* number of evaluations of the poller module (hot reloads) explored
MaxEvals == 2
\* largest operand of a generated challenge
MaxOperand == 1
\* number of payloads in one event stream
MaxEvents == 3
\* length of the text carried by one payload
MaxTextLen == 2
\* number of clients the Gemini client cache may come to hold
MaxClients == 2
\* number of incidents in one incidents.json body
MaxIncidents == 2
\* number of lines in an event-stream body
MaxLines == 3
\* number of tokens in a chunked event-stream body
MaxBodyLen == 5
\* number of pieces in an endpoint
MaxUrlLen == 5
\* results in the batch a tick summarises
MaxResults == 3
\* number of pieces in a model string
MaxModelLen == 4
\* candidates in a payload, parts in a candidate, elements in an array payload
MaxParts == 2

\* ------------------------------------------------------- program constants
DEFAULT_TIMEOUT_MS == 45000
DEGRADED_THRESHOLD_MS == 6000

\* =========================================================================
\*                                 POLLER
\* =========================================================================
VARIABLES
    poller,         \* globalThis.__checkCxPoller is set (interval registered)
    timers,         \* interval timers registered with setInterval so far
    running,        \* globalThis.__checkCxPollerRunning
    lastStartedAt,  \* globalThis.__checkCxLastPingStartedAt (0 = undefined)
    now,            \* Date.now(), in units of the poll interval
    evals,          \* evaluations of the poller module so far
    fires,          \* interval-timer fires so far
    invocations,    \* tick() invocations so far (the id of the latest one)
    tk,             \* per tick() invocation: its position and what it did
    checksCalls,    \* calls of runProviderChecks()
    appendCalls,    \* calls of appendHistory()
    skipLog,        \* skip diagnostics written
    history         \* the history collaborator: the batches appended, in order

pollerVars == <<poller, timers, running, lastStartedAt, now, evals, fires, invocations,
                tk, checksCalls, appendCalls, skipLog, history>>

\* the state of one batch of provider checks (CheckSpec)
VARIABLES
    envDegraded,    \* process.env.DEGRADED_THRESHOLD_MS as a number (0: unset)
    batch,          \* runProviderChecks(): "idle", "running", "resolved", "rejected"
    cfgs,           \* the provider configs of the batch: their type tags
    chk,            \* per provider: the position and locals of its check
    batchResults    \* the array runProviderChecks() resolved with

checkVars == <<envDegraded, batch, cfgs, chk, batchResults>>

\* the state of readEventStreamText over one response (StreamSpec)
VARIABLES
    events,         \* the payloads of the response not handled yet
    handled,        \* the payloads handled so far, in order
    parserText,     \* readEventStreamText's `text`
    lastPayload,    \* readEventStreamText's `lastPayload`
    returned        \* what requestGeminiNative returned for the stream

streamVars == <<events, handled, parserText, lastPayload, returned>>

\* the tunables and the module-level constants read from them (TuneSpec)
VARIABLES
    env,                \* process.env now: DEGRADED_THRESHOLD_MS and the poll
                        \* interval setting, as numbers (0: unset)
    loadedThreshold,    \* part_002's DEGRADED_THRESHOLD_MS constant, as the
                        \* latest evaluation of the module read it
    instances,          \* the DEGRADED_THRESHOLD_MS constants of all the
                        \* evaluations of part_002 in this process
    loadedInterval,     \* poller.ts's POLL_INTERVAL_MS constant
    registeredInterval, \* the delay the interval timer was registered with
    pendingCheck,       \* the check in flight: what it was started with
    lastCheck,          \* the latest check: what it used and what it returned
    lastSchedule        \* the latest interval fire: the delay to the next one

tuneVars == <<env, loadedThreshold, instances, loadedInterval, registeredInterval,
              pendingCheck, lastCheck, lastSchedule>>

\* the client cache of the OpenAI-compatible Gemini check (CacheSpec)
VARIABLES
    geminiClientCache,  \* globalThis.__CHECK_CX_GEMINI_CLIENTS__: key -> client
    lastConfig,         \* the config of the latest getGeminiClient call
    lastClient          \* the client that call returned

cacheVars == <<geminiClientCache, lastConfig, lastClient>>

\* one checkGeminiStatus() call (StatusSpec)
VARIABLES
    statusPc,       \* "idle", "fetch", "body", "done" or "rejected"
    statusTimer,    \* the abort timer is armed
    statusResponse, \* the response fetch resolved with
    statusError,    \* the error the catch block received
    statusResult    \* the OfficialStatusResult returned

statusVars == <<statusPc, statusTimer, statusResponse, statusError, statusResult>>

\* the line framing of the event-stream parser (FrameSpec); text, lastPayload
\* and the return value are the variables of the stream group
VARIABLES
    lines,          \* the lines of the body not yet handled
    eventDataLines, \* the data: values of the pending event
    flushed         \* the strings handlePayload was called with, in order

frameVars == <<lines, eventDataLines, flushed>>

\* the chunked reading of a body (ChunkSpec)
VARIABLES
    rawBody,  \* the whole response body
    unread,   \* the part of it reader.read() has not delivered yet
    buffer    \* the incomplete last line kept between chunks

chunkVars == <<rawBody, unread, buffer>>

\* one call of a pure helper (ResolveSpec, ...): its arguments and what it
\* returned
VARIABLES
    callPc,     \* "idle", "called" or a later step of the call
    callArgs,   \* the arguments
    callResult  \* the values returned so far

callVars == <<callPc, callArgs, callResult>>
auxVars == <<tuneVars, cacheVars, statusVars, frameVars, chunkVars, callVars>>
vars == <<pollerVars, checkVars, streamVars, auxVars>>

TickIds == 1..(MaxFires + 2)

\* the five statuses a CheckResult can carry
Statuses == {"operational", "degraded", "validation_failed", "failed", "error"}

\* the provider-config sets the config collaborator may hold when a tick reads it
ConfigSets == {<<>>, <<1>>, <<1, 2>>}

SeqRange(s) == {s[i] : i \in 1..Len(s)}

NoTick == [pc |-> "none", cfg |-> <<>>, pending |-> {}, results |-> <<>>,
           outcome |-> "none", appends |-> 0, appendArg |-> <<>>,
           summary |-> FALSE, startedAt |-> 0, skipDuration |-> -1]

\* a tick() invocation is between setting the running flag and its finally block
InFlight(id) == tk[id].pc \in {"config", "checks", "append"}

SetTk(id, rec) == tk' = [tk EXCEPT ![id] = rec]

\* the early return moved inside the try block: the finally block then clears
\* the flag of the tick that is still in flight
tickSkipThroughFinally(id) ==
    /\ SetTk(id, [NoTick EXCEPT !.pc = "skipped"])
    /\ skipLog' = skipLog + 1
    /\ running' = FALSE
    /\ UNCHANGED <<lastStartedAt, checksCalls, appendCalls, history>>

\* poller.ts:14-23, the early return of a tick() that finds the flag set: it
\* writes the skip diagnostic (with the age of the in-flight tick) and returns
\* before the try block, so the finally block does not run.
tickSkip(id) ==
    /\ SetTk(id, [NoTick EXCEPT !.pc = "skipped",
                     !.skipDuration = IF lastStartedAt # 0
                                      THEN now' - lastStartedAt ELSE -1])
    /\ skipLog' = skipLog + 1
    /\ UNCHANGED <<running, lastStartedAt, checksCalls, appendCalls, history>>

\* poller.ts:25-35, the synchronous head of a tick() that runs: it records the
\* start time, sets the flag and calls runProviderChecks(), then awaits it.
tickStart(id) ==
    /\ lastStartedAt' = now'
    /\ running' = TRUE
    /\ checksCalls' = checksCalls + 1
    /\ SetTk(id, [NoTick EXCEPT !.pc = "config", !.startedAt = now'])
    /\ UNCHANGED <<appendCalls, skipLog, history>>

\* tick() without the guard of lines 14-23
tickUnguarded(id) == tickStart(id)

\* poller.ts:13-35, tick() up to its first await
tick(id) ==
    IF running THEN tickSkip(id) ELSE tickStart(id)

Ended(id, outcome, summary) ==
    [tk[id] EXCEPT !.pc = "done", !.outcome = outcome, !.summary = summary,
                   !.pending = {}, !.cfg = <<>>, !.results = <<>>,
                   !.appendArg = <<>>]

\* a finally block replaced by a reset at the end of the try body
finishResetOnSuccessOnly(id, outcome, summary) ==
    /\ tk' = [tk EXCEPT ![id] = Ended(id, outcome, summary)]
    /\ running' = IF outcome \in {"appended", "empty"} THEN FALSE ELSE running
    /\ UNCHANGED <<checksCalls, lastStartedAt>>

\* a skipped invocation kept in a queue and run when the in-flight tick ends
finishRunsQueued(id, outcome, summary) ==
    LET queued == {j \in TickIds : j > id /\ tk[j].pc = "skipped"} IN
    IF queued = {}
    THEN /\ tk' = [tk EXCEPT ![id] = Ended(id, outcome, summary)]
         /\ running' = FALSE
         /\ UNCHANGED <<checksCalls, lastStartedAt>>
    ELSE LET j == CHOOSE q \in queued : \A r \in queued : q <= r IN
         /\ tk' = [tk EXCEPT ![id] = Ended(id, outcome, summary),
                             ![j] = [NoTick EXCEPT !.pc = "config",
                                                   !.startedAt = now]]
         /\ running' = TRUE
         /\ checksCalls' = checksCalls + 1
         /\ lastStartedAt' = now

\* a reset placed after the history append instead of a finally block: the
\* early return of lines 36-42 and the catch block leave the flag as it was
finishResetAfterAppend(id, outcome, summary) ==
    /\ tk' = [tk EXCEPT ![id] = Ended(id, outcome, summary)]
    /\ running' = IF outcome = "appended" THEN FALSE ELSE running
    /\ UNCHANGED <<checksCalls, lastStartedAt>>

\* poller.ts:93-97, the end of every tick() that ran: the catch block (for a
\* rejection) and the finally block, which clears the flag whatever the
\* outcome. summary: whether the summary of lines 74-92 was logged.
finish(id, outcome, summary) ==
    /\ tk' = [tk EXCEPT ![id] = Ended(id, outcome, summary)]
    /\ running' = FALSE
    /\ UNCHANGED <<checksCalls, lastStartedAt>>

\* the module body with the timer handle in a variable of the module instead
\* of globalThis: every evaluation finds it unset
ModuleEvalModuleScoped ==
    /\ evals < MaxEvals
    /\ evals' = evals + 1
    /\ invocations' = invocations + 1
    /\ now' = now
    /\ tick(invocations + 1)
    /\ poller' = TRUE
    /\ timers' = timers + 1
    /\ UNCHANGED fires

\* the module body without the immediate tick() of line 104
ModuleEvalNoTick ==
    /\ evals < MaxEvals
    /\ evals' = evals + 1
    /\ IF ~poller
       THEN /\ poller' = TRUE
            /\ timers' = timers + 1
            /\ UNCHANGED <<invocations, now, running, lastStartedAt, tk,
                           checksCalls, appendCalls, skipLog, history>>
       ELSE UNCHANGED <<poller, timers, invocations, now, running, lastStartedAt, tk,
                        checksCalls, appendCalls, skipLog, history>>
    /\ UNCHANGED fires

\* poller.ts:100-108, the module body: when no poller is registered it calls
\* tick() at once and then registers the interval timer; else it does nothing.
ModuleEval ==
    /\ evals < MaxEvals
    /\ evals' = evals + 1
    /\ IF ~poller
       THEN /\ invocations' = invocations + 1
            /\ now' = now
            /\ tick(invocations + 1)
            /\ poller' = TRUE
            /\ timers' = timers + 1
       ELSE UNCHANGED <<poller, timers, invocations, now, running, lastStartedAt, tk,
                        checksCalls, appendCalls, skipLog, history>>
    /\ UNCHANGED fires

\* poller.ts:105-107, the interval callback: one tick() per fire
TimerFire ==
    /\ poller
    /\ fires < MaxFires
    /\ fires' = fires + 1
    /\ now' = now + 1
    /\ invocations' = invocations + 1
    /\ tick(invocations + 1)
    /\ UNCHANGED <<poller, timers, evals>>

\* runProviderChecks() reads the current provider configs and starts one check
\* per provider, all concurrently.
LoadConfigs(id) ==
    /\ tk[id].pc = "config"
    /\ \E cfg \in ConfigSets :
          SetTk(id, [tk[id] EXCEPT !.pc = "checks", !.cfg = cfg,
                        !.pending = SeqRange(cfg),
                        !.results = [i \in 1..Len(cfg) |-> "none"]])
    /\ UNCHANGED <<poller, timers, running, lastStartedAt, now, evals, fires,
                   invocations, checksCalls, appendCalls, skipLog, history>>

\* one provider's check settles with its CheckResult
CheckSettle(id) ==
    /\ tk[id].pc = "checks"
    /\ \E i \in 1..Len(tk[id].cfg), st \in Statuses :
          /\ tk[id].cfg[i] \in tk[id].pending
          /\ SetTk(id, [tk[id] EXCEPT !.pending = @ \ {tk[id].cfg[i]},
                                      !.results[i] = st])
    /\ UNCHANGED <<poller, timers, running, lastStartedAt, now, evals, fires,
                   invocations, checksCalls, appendCalls, skipLog, history>>

\* runProviderChecks() resolves once every check it started has settled
ChecksSettled(id) == tk[id].pending = {}

\* the early return of line 41 dropped: an empty batch is appended as well
ChecksResolveNoEarlyReturn(id) ==
    /\ tk[id].pc = "checks"
    /\ ChecksSettled(id)
    /\ tk' = [tk EXCEPT ![id].pc = "append", ![id].appends = @ + 1,
                        ![id].appendArg = tk[id].results]
    /\ appendCalls' = appendCalls + 1
    /\ UNCHANGED <<running, history, checksCalls, lastStartedAt>>
    /\ UNCHANGED <<poller, timers, now, evals, fires, invocations, skipLog>>

\* poller.ts:35-64, runProviderChecks() resolves: an empty batch returns at
\* line 41 (through the finally block); otherwise the details are logged and
\* appendHistory(results) is called once with the whole batch and awaited.
ChecksResolve(id) ==
    /\ tk[id].pc = "checks"
    /\ ChecksSettled(id)
    /\ IF Len(tk[id].results) = 0
       THEN /\ finish(id, "empty", FALSE)
            /\ UNCHANGED <<appendCalls, history>>
       ELSE /\ tk' = [tk EXCEPT ![id].pc = "append",
                                ![id].appends = @ + 1,
                                ![id].appendArg = tk[id].results]
            /\ appendCalls' = appendCalls + 1
            /\ UNCHANGED <<running, history, checksCalls, lastStartedAt>>
    /\ UNCHANGED <<poller, timers, now, evals, fires, invocations, skipLog>>

\* poller.ts:35 and 93-97, runProviderChecks() rejects (the provider configs
\* cannot be read; a provider check itself never rejects): catch, then finally
ChecksReject(id) ==
    /\ tk[id].pc = "config"
    /\ finish(id, "checksThrew", FALSE)
    /\ UNCHANGED <<poller, timers, now, evals, fires, invocations, appendCalls,
                   skipLog, history>>

\* the summary of lines 74-92 left out
AppendResolveNoSummary(id) ==
    /\ tk[id].pc = "append"
    /\ history' = Append(history, [tick |-> id, size |-> Len(tk[id].appendArg)])
    /\ finish(id, "appended", FALSE)
    /\ UNCHANGED <<poller, timers, now, evals, fires, invocations, appendCalls,
                   skipLog>>

\* poller.ts:64-97, appendHistory() resolves: the snapshot counts, the status
\* counts and the summary with the next projected tick are logged, then finally
AppendResolve(id) ==
    /\ tk[id].pc = "append"
    /\ history' = Append(history, [tick |-> id, size |-> Len(tk[id].appendArg)])
    /\ finish(id, "appended", TRUE)
    /\ UNCHANGED <<poller, timers, now, evals, fires, invocations, appendCalls,
                   skipLog>>

\* poller.ts:64 and 93-97, appendHistory() rejects: catch, then finally
AppendReject(id) ==
    /\ tk[id].pc = "append"
    /\ finish(id, "appendThrew", FALSE)
    /\ UNCHANGED <<poller, timers, now, evals, fires, invocations, appendCalls,
                   skipLog, history>>

PollerInit ==
    /\ poller = FALSE
    /\ timers = 0
    /\ running = FALSE
    /\ lastStartedAt = 0
    /\ now = 1
    /\ evals = 0
    /\ fires = 0
    /\ invocations = 0
    /\ tk = [id \in TickIds |-> NoTick]
    /\ checksCalls = 0
    /\ appendCalls = 0
    /\ skipLog = 0
    /\ history = <<>>

PollerNext ==
    \/ ModuleEval
    \/ TimerFire
    \/ \E id \in TickIds : LoadConfigs(id)
    \/ \E id \in TickIds : CheckSettle(id)
    \/ \E id \in TickIds : ChecksResolve(id)
    \/ \E id \in TickIds : ChecksReject(id)
    \/ \E id \in TickIds : AppendResolve(id)
    \/ \E id \in TickIds : AppendReject(id)


\* ------------------------------------------------------ claims on the poller
Ran(id) == tk[id].pc \notin {"none", "skipped"}
Threw(id) == tk[id].pc = "done" /\ tk[id].outcome \in {"checksThrew", "appendThrew"}
SomeInFlight == \E id \in TickIds : InFlight(id)

\* C1: at most one tick() invocation is ever between setting the running flag
\* and its finally block, so two ticks never run provider checks or the
\* history append concurrently; the flag is set exactly while one is in flight.
C1_SingleFlight ==
    /\ Cardinality({id \in TickIds : InFlight(id)}) <= 1
    /\ running <=> SomeInFlight

\* C1 witness: a timer fire arrived while a tick was running its checks
C1_Witness ==
    \E id \in TickIds :
        /\ tk[id].pc = "checks" /\ tk[id].pending # {}
        /\ \E j \in TickIds : j > id /\ tk[j].pc = "skipped"

\* C2: a tick() invoked while an earlier tick is running calls
\* runProviderChecks and appendHistory zero times, writes the skip diagnostic,
\* and leaves the running flag, lastStartedAt, the history and the in-flight
\* tick as they were.
C2_SkipLeavesTickAlone ==
    [][(invocations' = invocations + 1 /\ running) =>
          /\ checksCalls' = checksCalls
          /\ appendCalls' = appendCalls
          /\ skipLog' = skipLog + 1
          /\ running' = TRUE
          /\ lastStartedAt' = lastStartedAt
          /\ history' = history
          /\ tk'[invocations'].pc = "skipped"
          /\ \A id \in TickIds : InFlight(id) => tk'[id] = tk[id]]_vars

\* C2 witness: a skip was logged, with the age of the tick still in flight
C2_Witness ==
    /\ skipLog >= 1
    /\ running
    /\ \E id \in TickIds : InFlight(id) /\ tk[id].startedAt = lastStartedAt
    /\ \E j \in TickIds : tk[j].pc = "skipped" /\ tk[j].skipDuration >= 1

\* C3: a skipped tick is never queued: a tick body starts only in the step of a
\* tick() invocation, and the bodies started are exactly the invocations that
\* found the flag clear (invocations minus skips).
C3_NeverQueued ==
    /\ [](checksCalls + skipLog = invocations)
    /\ [](Cardinality({id \in TickIds : Ran(id)}) = checksCalls)
    /\ [][checksCalls' # checksCalls =>
            /\ invocations' = invocations + 1
            /\ checksCalls' = checksCalls + 1
            /\ ~running]_vars

\* C3 witness: a tick was skipped, the in-flight tick has finished, and no
\* body has started since
C3_Witness ==
    /\ ~SomeInFlight
    /\ skipLog >= 1
    /\ \E id \in TickIds : tk[id].pc = "done" /\ tk[id + 1].pc = "skipped"
                           /\ invocations = id + 1

\* C4: when runProviderChecks or appendHistory rejects inside a tick, the tick
\* ends with the running flag cleared and the interval timer still registered,
\* and the next timer fire runs a full tick.
C4_ExceptionKeepsLoop ==
    /\ [][\A id \in TickIds : (Threw(id)' /\ ~Threw(id)) =>
             (running' = FALSE /\ poller' = TRUE)]_vars
    /\ [][(fires' = fires + 1 /\ Threw(invocations)) =>
             (/\ poller
              /\ tk'[invocations'].pc \notin {"none", "skipped"}
              /\ checksCalls' = checksCalls + 1)]_vars

\* C4 witness: a tick ended by an exception and the following invocation ran
C4_Witness ==
    \E id \in TickIds :
        /\ Threw(id) /\ tk[id].outcome = "appendThrew"
        /\ Ran(id + 1)
        /\ \E j \in TickIds : Threw(j) /\ tk[j].outcome = "checksThrew"

\* C5 as claimed: every tick that is not skipped calls appendHistory exactly once
C5_AppendOnceEveryTick ==
    \A id \in TickIds : tk[id].pc = "done" => tk[id].appends = 1

\* C5 amended: a tick calls appendHistory exactly once when runProviderChecks
\* resolved with a non-empty batch, with the whole batch and only after every
\* check has settled, and zero times when the batch is empty or
\* runProviderChecks rejected; never more than once.
C5_AppendOnceNonEmptyBatch ==
    \A id \in TickIds :
        /\ tk[id].appends <= 1
        /\ tk[id].pc = "done" =>
              (tk[id].appends = 1 <=> tk[id].outcome \in {"appended", "appendThrew"})
        /\ tk[id].pc \in {"config", "checks"} => tk[id].appends = 0
        /\ tk[id].pc = "append" =>
              /\ tk[id].appends = 1
              /\ tk[id].pending = {}
              /\ Len(tk[id].appendArg) >= 1
              /\ Len(tk[id].appendArg) = Len(tk[id].cfg)
              /\ \A i \in 1..Len(tk[id].cfg) : tk[id].appendArg[i] \in Statuses
        /\ Len(history) <= appendCalls
        /\ \A h \in 1..Len(history) : history[h].size >= 1

\* C5 witness: one tick appended a batch of two, another had an empty batch
C5_Witness ==
    /\ \E id \in TickIds : tk[id].pc = "append" /\ Len(tk[id].appendArg) = 2
    /\ \E j \in TickIds : tk[j].pc = "done" /\ tk[j].outcome = "empty"

\* C6 as claimed: every tick that ran logs the status-count summary and the
\* next projected tick time, whatever its outcome
C6_SummaryEveryTick ==
    \A id \in TickIds : tk[id].pc = "done" => tk[id].summary

\* C6 amended: a tick logs the summary and the next projected tick time exactly
\* when its batch was non-empty and appendHistory resolved; a tick with an
\* empty batch or an exception ends without the summary.
C6_SummaryOnlyAfterAppend ==
    \A id \in TickIds :
        /\ tk[id].pc = "done" => (tk[id].summary <=> tk[id].outcome = "appended")
        /\ tk[id].pc # "done" => ~tk[id].summary

\* C6 witness: ticks of all four outcomes have ended
C6_Witness ==
    \A o \in {"appended", "empty", "checksThrew", "appendThrew"} :
        \E id \in TickIds : tk[id].pc = "done" /\ tk[id].outcome = o

\* C7: the first tick() is invoked when the poller is initialised, before any
\* timer fire: once the timer is registered the first tick body has started,
\* at the initial time.
C7_FirstTickAtStartup ==
    /\ poller => (invocations >= 1 /\ Ran(1) /\ tk[1].startedAt = 1)
    /\ fires >= 1 => checksCalls >= 1
    /\ ~poller => (fires = 0 /\ invocations = 0)

\* C7 witness: the first tick is running its checks and no timer has fired
C7_Witness ==
    /\ poller /\ fires = 0
    /\ tk[1].pc = "checks" /\ tk[1].pending # {}

\* =========================================================================
\*                        ONE BATCH OF PROVIDER CHECKS
\* =========================================================================
\* null, for latencyMs and pingLatencyMs
NullMs == -1

\* the decimal rendering of the sums the challenges use (0..9)
Digits == <<"0", "1", "2", "3", "4", "5", "6", "7", "8", "9">>
ToDecimal(n) == Digits[n + 1]
IsNumeric(tok) == \E n \in 0..9 : tok = ToDecimal(n)

\* the batches explored: "bogus" is a type tag no adapter supports
Batches == {<<"openai", "gemini">>, <<"bogus", "gemini">>, <<"anthropic", "openai">>}
Providers == 1..2

\* the values process.env.DEGRADED_THRESHOLD_MS may have when part_002 loads
EnvThresholds == {0, DEGRADED_THRESHOLD_MS + 1}

\* how long one transport call may take before it settles by itself
Durations == {DEGRADED_THRESHOLD_MS, DEGRADED_THRESHOLD_MS + 1}

\* what measureEndpointPing() resolves with: null or elapsed milliseconds
PingResults == {NullMs, 20}

Operands == 1..MaxOperand

\* generateChallenge(): "a + b = ?" with the exact sum as a decimal string
generateChallenge(a, b) ==
    [prompt |-> <<ToDecimal(a), "+", ToDecimal(b), "=", "?">>,
     expectedAnswer |-> ToDecimal(a + b)]

\* the replies a model may give to a challenge, as token sequences: empty,
\* blank, the right answer inside text, a wrong number, and no number at all
Replies(a, b) ==
    {<<>>, <<" ">>, <<"result:", ToDecimal(a + b)>>,
     <<"it", "is", ToDecimal(a + b + 1)>>, <<"no", "numbers">>}

\* String.prototype.trim(), as far as blankness goes
Trim(text) == SelectSeq(text, LAMBDA t : t # " ")

\* validateResponse(text, expectedAnswer): the numeric substrings of the reply,
\* and whether the expected answer is among them
validateResponse(text, expectedAnswer) ==
    LET nums == SelectSeq(text, IsNumeric) IN
    [valid |-> \E k \in 1..Len(nums) : nums[k] = expectedAnswer,
     extractedNumbers |-> nums]

\* the errors an adapter call may throw
NoError == [name |-> "", message |-> <<>>]
AbortErr == [name |-> "AbortError", message |-> <<"This", "operation", "was", "aborted">>]
HttpErr == [name |-> "Error", message |-> <<"Bad", "Gateway">>]
TransportErr == [name |-> "TypeError", message |-> <<"fetch", "failed">>]
BlankErr == [name |-> "Error", message |-> <<>>]
UnsupportedErr == [name |-> "Error", message |-> <<"Unsupported", "provider", "type">>]
\* the TypeError of Headers.set() for a name or value that is not a legal header
HeaderErr == [name |-> "TypeError", message |-> <<"invalid", "header", "name">>]
\* endpoint.split("?") on an endpoint that is undefined
UndefinedSplitErr ==
    [name |-> "TypeError",
     message |-> <<"Cannot", "read", "properties", "of", "undefined", "(reading",
                   "'split')">>]
\* part_002:214-217, the error of an event-stream response without a body
NoBodyErr == [name |-> "Error", message |-> <<"Gemini", "no", "response", "body">>]
\* the faults other than the deadline
Faults == {HttpErr, TransportErr, BlankErr}

Lower(tok) ==
    CASE tok \in {"Timeout", "TIMEOUT", "timeout"} -> "timeout"
      [] tok \in {"Request", "request"} -> "request"
      [] tok \in {"Was", "was"} -> "was"
      [] tok \in {"Aborted", "aborted"} -> "aborted"
      [] OTHER -> tok

\* ai-sdk-check.ts:385-394
isTimeoutError(error) ==
    \/ error.name = "AbortError"
    \/ \E k \in 1..(Len(error.message) - 2) :
          /\ Lower(error.message[k]) = "request"
          /\ Lower(error.message[k + 1]) = "was"
          /\ Lower(error.message[k + 2]) = "aborted"
    \/ \E k \in 1..Len(error.message) : Lower(error.message[k]) = "timeout"

\* the messages of a CheckResult
Msg(kind, ms, expected, actual, raw) ==
    [kind |-> kind, ms |-> ms, expected |-> expected, actual |-> actual, raw |-> raw]
MsgTimeout == Msg("TIMEOUT", NullMs, "", <<>>, <<>>)
MsgUnknown == Msg("UNKNOWN", NullMs, "", <<>>, <<>>)
MsgEmpty == Msg("EMPTY_REPLY", NullMs, "", <<>>, <<>>)
MsgRaw(raw) == Msg("RAW", NullMs, "", <<>>, raw)
MsgPassed(ms) == Msg("PASSED", ms, "", <<>>, <<>>)
MsgSlow(ms) == Msg("SLOW", ms, "", <<>>, <<>>)
MsgInvalid(expected, actual) ==
    Msg("INVALID", NullMs, expected, IF actual = <<>> THEN <<"(none)">> ELSE actual, <<>>)

\* ai-sdk-check.ts:402-407
getErrorMessage(error) ==
    IF isTimeoutError(error) THEN MsgTimeout
    ELSE IF error.message # <<>> THEN MsgRaw(error.message) ELSE MsgUnknown

\* getErrorMessage of utils/error-handler, which part_002 imports
getErrorMessageShared(error) == getErrorMessage(error)

\* part_002:18, Number(process.env.DEGRADED_THRESHOLD_MS) || 6_000
GeminiThreshold == IF envDegraded # 0 THEN envDegraded ELSE DEGRADED_THRESHOLD_MS

\* the threshold a check of this kind compares with
Threshold(kind) == IF kind = "gemini" THEN GeminiThreshold ELSE DEGRADED_THRESHOLD_MS

\* the adapter a provider type is dispatched to
KindOf(type) == IF type = "gemini" THEN "gemini" ELSE "aisdk"

NoResult == [status |-> "none", latencyMs |-> NullMs, pingLatencyMs |-> NullMs,
             message |-> Msg("", NullMs, "", <<>>, <<>>)]

buildCheckResultPingGated(pingLatencyMs, status, latencyMs, message) ==
    [status |-> IF pingLatencyMs = NullMs THEN "failed" ELSE status,
     latencyMs |-> latencyMs, pingLatencyMs |-> pingLatencyMs, message |-> message]

buildCheckResultNoPing(pingLatencyMs, status, latencyMs, message) ==
    [status |-> status, latencyMs |-> latencyMs, pingLatencyMs |-> NullMs,
     message |-> message]

\* buildCheckResult (ai-sdk-check.ts:429-447, part_002:421-438)
buildCheckResult(pingLatencyMs, status, latencyMs, message) ==
    [status |-> status, latencyMs |-> latencyMs, pingLatencyMs |-> pingLatencyMs,
     message |-> message]

\* the statuses of the non-2xx responses explored
HttpStatuses == {429, 503}

\* what response.text() gave for the body of a non-2xx response: the raw
\* text, or a rejection (ok = FALSE)
BodyRead(ok, text) == [ok |-> ok, text |-> text]
NoBodyRead == BodyRead(FALSE, <<>>)

\* the bodies a non-2xx response may carry: unreadable, empty, an error
\* description, and a body that reads like the right answer
ErrorBodyReads(a, b) ==
    {NoBodyRead} \cup
    {BodyRead(TRUE, t) : t \in {<<>>, <<"quota", "exceeded">>,
                                <<"result:", ToDecimal(a + b)>>}}

\* part_002:367, response.text().catch(() => "")
textOrEmpty(read) == IF read.ok THEN read.text ELSE <<>>

\* part_002:27-36, createGeminiApiError with the default message
createGeminiApiError(statusCode, responseBody) ==
    [name |-> "Error",
     message |-> <<"Gemini", "API", "failed",
                   IF statusCode = 429 THEN "(429)" ELSE "(503)">>,
     statusCode |-> statusCode, responseBody |-> responseBody]

IdleCheck == [pc |-> "idle", kind |-> "", type |-> "", a |-> 0, b |-> 0,
              ping |-> "none", pingMs |-> NullMs, text |-> <<>>, elapsed |-> 0,
              error |-> NoError, timers |-> 0, requests |-> 0, validated |-> 0,
              phase |-> "", aborted |-> FALSE, inputs |-> <<>>, result |-> NoResult,
              headers |-> "", httpStatus |-> 0, body |-> NoBodyRead,
              challenges |-> 0, prompts |-> <<>>, endpoint |-> ""]


SupportedTypes == {"openai", "anthropic", "gemini"}

InTryCallsOnly(kind, point) == point = "call"

\* the statements the try block of a check covers: createModel and the adapter
\* call (ai-sdk-check.ts:535-555, part_002:449-473)
InTry(kind, point) == point \in {"createModel", "call"}

\* an exception thrown at a point of a check: caught by the check's catch
\* block when the point is inside its try block, else the promise rejects
Thrown(c, point, err) ==
    IF InTry(c.kind, point)
    THEN [c EXCEPT !.pc = "catch", !.error = err]
    ELSE [c EXCEPT !.pc = "rejected", !.error = err]

\* ai-sdk-check.ts:283-372, createModel: throws for an unsupported type
createModelThrows(type) == type \notin SupportedTypes

\* config.endpoint: configured, or left out
EndpointInputs == {"set", "unset"}

\* the provider types DEFAULT_ENDPOINTS (lib/types) has an endpoint for
DEFAULT_ENDPOINTS == {"openai", "anthropic", "gemini"}

\* ai-sdk-check.ts:285-287 and 368-370, what createModel throws for an
\* unsupported type: without a configured endpoint and without a default one
\* deriveBaseURL(undefined) throws at endpoint.split (67) before the switch
\* is reached; else the default branch of the switch throws
createModelError(type, endpoint) ==
    IF endpoint = "unset" /\ type \notin DEFAULT_ENDPOINTS
    THEN UndefinedSplitErr ELSE UnsupportedErr

\* how one adapter call of check i ended: the text it returned or the error
\* it threw, and after how long
Input(text, err, d) == [text |-> text, error |-> err, d |-> d]

\* config.requestHeaders as Headers.set() sees it: every entry a legal header
\* name and value, or some entry not
HeaderInputs == {"valid", "invalid"}

\* part_002:357-403, the statements of requestGeminiNative inside its
\* try/finally: fetch and the reading of the response ("call"); the timer is
\* armed (317-321) and the url, headers and body are built (323-355) before it
finallyCovers(point) == point = "call"

\* part_002:317-355, requestGeminiNative up to its try block: Headers.set()
\* throws for an illegal requestHeaders entry (330-332)
requestSetupThrows(headers) == headers = "invalid"

\* the synchronous head of a check, up to its first await
\* (ai-sdk-check.ts:519-553, part_002:443-458 and 317-364)
StartCheck(type, a, b, headers, endpoint) ==
    LET c == [IdleCheck EXCEPT !.kind = KindOf(type), !.type = type, !.a = a,
                               !.b = b, !.ping = "pending", !.timers = 1,
                               !.challenges = 1,
                               !.headers = IF KindOf(type) = "gemini"
                                           THEN headers ELSE "valid",
                               !.endpoint = IF KindOf(type) = "aisdk"
                                            THEN endpoint ELSE "set"]
    IN  IF KindOf(type) = "aisdk" /\ createModelThrows(type)
        THEN Thrown(c, "createModel", createModelError(type, endpoint))
        ELSE IF KindOf(type) = "gemini" /\ requestSetupThrows(headers)
        THEN [Thrown(c, "call", HeaderErr) EXCEPT
                 !.timers = IF finallyCovers("headers") THEN 0 ELSE @,
                 !.requests = 1,
                 !.prompts = <<generateChallenge(a, b).prompt>>,
                 !.inputs = <<Input(<<>>, HeaderErr, 0)>>]
        ELSE [c EXCEPT !.pc = IF KindOf(type) = "aisdk" THEN "stream" ELSE "req1",
                       !.phase = IF KindOf(type) = "aisdk" THEN "" ELSE "connect",
                       !.prompts = <<generateChallenge(a, b).prompt>>,
                       !.requests = 1]

\* runProviderChecks(): every provider's check is started, each with a fresh
\* challenge
BatchStart ==
    /\ batch = "idle"
    /\ batch' = "running"
    /\ \E ch \in [Providers -> Operands \X Operands],
          hd \in [Providers -> HeaderInputs],
          ep \in [Providers -> EndpointInputs] :
          chk' = [i \in Providers |->
                    StartCheck(cfgs[i], ch[i][1], ch[i][2], hd[i], ep[i])]
    /\ UNCHANGED <<envDegraded, cfgs, batchResults, pollerVars>>

\* endpoint-ping: measureEndpointPing() resolves, with null on any failure
PingSettle(i) ==
    /\ chk[i].ping = "pending"
    /\ \E ms \in PingResults :
          chk' = [chk EXCEPT ![i].ping = "settled", ![i].pingMs = ms]
    /\ UNCHANGED <<envDegraded, batch, cfgs, batchResults, pollerVars>>

CallInFlight(i) == chk[i].pc \in {"stream", "req1", "req2"}

AbortScopeShared(i) == Providers

\* the checks whose in-flight call the AbortController of check i aborts: the
\* controller is created per check (ai-sdk-check.ts:519-520, part_002:317-321)
AbortScope(i) == {i}

\* part_002:357-383, where an attempt of requestGeminiNative stands: awaiting
\* fetch ("connect"), reading an event stream ("sse"), reading a JSON body
\* ("json") or reading the body of a non-2xx response ("errbody")
ResponsePhases == {"sse", "json", "errbody"}

\* part_002:371-400, what requestGeminiNative returns for a reply text: the
\* text, or "" when it is blank
requestGeminiNativeReturn(text) == IF Trim(text) = <<>> THEN <<>> ELSE text

shouldRetryWhileBlank(pc, ret) == Trim(ret) = <<>>

\* part_002:460, the generateContent attempt is made when the first attempt
\* returned blank text
shouldRetry(pc, ret) == pc = "req1" /\ Trim(ret) = <<>>

\* a retry that asks a question of its own
retryPromptFreshChallenge(c) == generateChallenge(c.a + 1, c.b).prompt

\* part_002:464-472, the prompt of the generateContent attempt: that of the
\* challenge generated at line 447
retryPrompt(c) == generateChallenge(c.a, c.b).prompt

\* part_002:450-473, an attempt of check c returned reply after d ms: a blank
\* first reply starts the generateContent attempt, with a timer of its own
\* (part_002:317-321); the finished attempt's timer is cleared (401-403)
GeminiReturned(c, reply, d) ==
    LET ret == requestGeminiNativeReturn(reply) IN
    IF shouldRetry(c.pc, ret)
    THEN [c EXCEPT !.pc = "req2", !.phase = "connect", !.timers = 1,
                   !.httpStatus = 0, !.prompts = Append(@, retryPrompt(c)),
                   !.requests = @ + 1, !.elapsed = @ + d,
                   !.inputs = Append(@, Input(reply, NoError, d))]
    ELSE [c EXCEPT !.pc = "reply", !.phase = "", !.text = ret, !.timers = 0,
                   !.elapsed = @ + d,
                   !.inputs = Append(@, Input(reply, NoError, d))]

\* part_002:507-512, an attempt of check c threw err after d ms
GeminiThrew(c, err, d) ==
    [Thrown(c, "call", err) EXCEPT !.phase = "", !.timers = 0, !.elapsed = @ + d,
                                   !.inputs = Append(@, Input(<<>>, err, d))]

\* how long fetch may take to resolve with a response that has no body
ResponseDelays == {0} \cup Durations

\* part_002:358-372, fetch resolves with the response headers: the status and
\* the content type decide how the body is read; an event-stream response
\* whose body is null makes readEventStreamText throw at once (214-217), so
\* the attempt ends in the step of the response
GeminiResponse(i) ==
    /\ chk[i].pc \in {"req1", "req2"}
    /\ chk[i].phase = "connect"
    /\ \/ \E ph \in ResponsePhases, st \in HttpStatuses :
             chk' = [chk EXCEPT ![i].phase = ph,
                                ![i].httpStatus = IF ph = "errbody" THEN st ELSE 200]
       \/ \E d \in ResponseDelays :
             chk' = [chk EXCEPT ![i] =
                       GeminiThrew([chk[i] EXCEPT !.httpStatus = 200], NoBodyErr, d)]
    /\ UNCHANGED <<envDegraded, batch, cfgs, batchResults, pollerVars>>

nonOkResponseParsedAsReply(c, read, d) ==
    [GeminiReturned(c, textOrEmpty(read), d) EXCEPT !.body = read]

\* part_002:366-369, the response is not 2xx: its body is read as text and
\* the API error is thrown with the status and that text
nonOkResponse(c, read, d) ==
    [GeminiThrew(c, createGeminiApiError(c.httpStatus, textOrEmpty(read)), d)
        EXCEPT !.body = read]

\* a read loop that does not observe the signal: an open event stream keeps
\* being read after the abort
abortOutcomeStreamKeepsReading(c) ==
    CASE c.phase = "json" -> GeminiReturned(c, <<>>, DEFAULT_TIMEOUT_MS)
      [] c.phase = "errbody" -> nonOkResponse(c, NoBodyRead, DEFAULT_TIMEOUT_MS)
      [] c.phase = "sse" -> c
      [] OTHER -> GeminiThrew(c, AbortErr, DEFAULT_TIMEOUT_MS)

\* part_002:357-383, what the abort of the attempt's signal turns into: fetch
\* and the stream reader reject with the AbortError; the rejection of
\* response.text() is replaced by "" (`.catch(() => "")`), so a JSON body
\* reads as empty and a non-2xx response throws the API error
abortOutcome(c) ==
    CASE c.phase = "json" -> GeminiReturned(c, <<>>, DEFAULT_TIMEOUT_MS)
      [] c.phase = "errbody" -> nonOkResponse(c, NoBodyRead, DEFAULT_TIMEOUT_MS)
      [] OTHER -> GeminiThrew(c, AbortErr, DEFAULT_TIMEOUT_MS)

\* the deadline timer of check i fires while its call is in flight and aborts
\* the call (ai-sdk-check.ts:520, part_002:317-321)
DeadlineFire(i) ==
    /\ CallInFlight(i)
    /\ chk' = [j \in Providers |->
                 IF j \in AbortScope(i) /\ CallInFlight(j)
                 THEN IF j # i THEN Thrown(chk[j], "call", AbortErr)
                      ELSE IF chk[j].kind = "gemini"
                      THEN [abortOutcome(chk[j]) EXCEPT !.aborted = TRUE]
                      ELSE [Thrown(chk[j], "call", AbortErr) EXCEPT
                               !.elapsed = @ + DEFAULT_TIMEOUT_MS,
                               !.aborted = TRUE,
                               !.inputs = Append(@, Input(<<>>, AbortErr,
                                                          DEFAULT_TIMEOUT_MS))]
                 ELSE chk[j]]
    /\ UNCHANGED <<envDegraded, batch, cfgs, batchResults, pollerVars>>

\* ai-sdk-check.ts:551-555, the text stream ends with the collected reply, or
\* throws
AiStreamSettle(i) ==
    /\ chk[i].pc = "stream"
    /\ \E d \in Durations :
          \/ \E reply \in Replies(chk[i].a, chk[i].b) :
                chk' = [chk EXCEPT ![i].pc = "reply", ![i].text = reply,
                                   ![i].elapsed = @ + d,
                                   ![i].inputs = Append(@, Input(reply, NoError, d))]
          \/ \E err \in Faults :
                chk' = [chk EXCEPT ![i] =
                          [Thrown(chk[i], "call", err) EXCEPT
                              !.elapsed = @ + d,
                              !.inputs = Append(@, Input(<<>>, err, d))]]
    /\ UNCHANGED <<envDegraded, batch, cfgs, batchResults, pollerVars>>

\* part_002:357-400, the errors an attempt can throw where it stands, apart
\* from the API error of a non-2xx response: fetch rejects or the stream
\* reader fails; a failure to read a JSON body is not thrown
GeminiFaults(phase) ==
    CASE phase = "connect" -> {TransportErr}
      [] phase = "sse" -> {TransportErr, BlankErr}
      [] OTHER -> {}

\* part_002:371-400, the phases in which an attempt returns a text
GeminiReplies(c) ==
    IF c.phase \in {"sse", "json"} THEN Replies(c.a, c.b) ELSE {}

\* part_002:450-473, one requestGeminiNative attempt settles: it returns the
\* text it read or throws
GeminiAttemptSettle(i) ==
    /\ chk[i].pc \in {"req1", "req2"}
    /\ \E d \in Durations :
          \/ \E reply \in GeminiReplies(chk[i]) :
                chk' = [chk EXCEPT ![i] = GeminiReturned(chk[i], reply, d)]
          \/ \E err \in GeminiFaults(chk[i].phase) :
                chk' = [chk EXCEPT ![i] = GeminiThrew(chk[i], err, d)]
          \/ /\ chk[i].phase = "errbody"
             /\ \E read \in ErrorBodyReads(chk[i].a, chk[i].b) :
                   chk' = [chk EXCEPT ![i] = nonOkResponse(chk[i], read, d)]
    /\ UNCHANGED <<envDegraded, batch, cfgs, batchResults, pollerVars>>

classifyStrict(latencyMs, threshold) ==
    IF latencyMs < threshold THEN "operational" ELSE "degraded"

\* ai-sdk-check.ts:592-593, part_002:499-500
classify(latencyMs, threshold) ==
    IF latencyMs <= threshold THEN "operational" ELSE "degraded"

replyResultUnvalidated(c) ==
    LET latencyMs == c.elapsed
        status == classify(latencyMs, Threshold(c.kind))
    IN  IF Trim(c.text) = <<>>
        THEN buildCheckResult(c.pingMs, "failed", latencyMs, MsgEmpty)
        ELSE buildCheckResult(c.pingMs, status, latencyMs,
                              IF status = "degraded" THEN MsgSlow(latencyMs)
                              ELSE MsgPassed(latencyMs))

\* ai-sdk-check.ts:557-599, part_002:475-506: the result of a check whose
\* adapter call returned text
replyResult(c) ==
    LET latencyMs == c.elapsed
        expected == generateChallenge(c.a, c.b).expectedAnswer
        v == validateResponse(c.text, expected)
        status == classify(latencyMs, Threshold(c.kind))
    IN  IF Trim(c.text) = <<>>
        THEN buildCheckResult(c.pingMs, "failed", latencyMs, MsgEmpty)
        ELSE IF ~v.valid
        THEN buildCheckResult(c.pingMs, "validation_failed", latencyMs,
                              MsgInvalid(expected, v.extractedNumbers))
        ELSE buildCheckResult(c.pingMs, status, latencyMs,
                              IF status = "degraded" THEN MsgSlow(latencyMs)
                              ELSE MsgPassed(latencyMs))

catchResultNullLatency(c) ==
    buildCheckResult(c.pingMs, IF c.kind = "aisdk" THEN "failed" ELSE "error", NullMs,
                     getErrorMessage(c.error))

catchResultByCause(c) ==
    buildCheckResult(c.pingMs, IF isTimeoutError(c.error) THEN "failed" ELSE "error",
                     IF c.kind = "aisdk" THEN NullMs ELSE c.elapsed,
                     getErrorMessage(c.error))

\* ai-sdk-check.ts:600-602, part_002:507-512: the result built by the catch
\* block
catchResult(c) ==
    IF c.kind = "aisdk"
    THEN buildCheckResult(c.pingMs, "failed", NullMs, getErrorMessage(c.error))
    ELSE buildCheckResult(c.pingMs, "error", c.elapsed, getErrorMessageShared(c.error))

validateCallsBeforeEmptyCheck(c) == 1

\* ai-sdk-check.ts:560-567, part_002:478-484: validateResponse is called after
\* the empty-reply return, so once for a non-blank reply and not at all for a
\* blank one
validateCalls(c) == IF Trim(c.text) = <<>> THEN 0 ELSE 1

\* the check awaits the ping and returns its result from the try block
\* (ai-sdk-check.ts:557-599 and 603-605, part_002:475-506)
ReplyFinish(i) ==
    /\ chk[i].pc = "reply"
    /\ chk[i].ping = "settled"
    /\ chk' = [chk EXCEPT ![i].pc = "done",
                          ![i].timers = IF chk[i].kind = "aisdk" THEN 0 ELSE @,
                          ![i].validated = @ + validateCalls(chk[i]),
                          ![i].result = replyResult(chk[i])]
    /\ UNCHANGED <<envDegraded, batch, cfgs, batchResults, pollerVars>>

\* the check awaits the ping and returns its result from the catch block
\* (ai-sdk-check.ts:600-605, part_002:507-512)
CatchFinish(i) ==
    /\ chk[i].pc = "catch"
    /\ chk[i].ping = "settled"
    /\ chk' = [chk EXCEPT ![i].pc = "done",
                          ![i].timers = IF chk[i].kind = "aisdk" THEN 0 ELSE @,
                          ![i].result = catchResult(chk[i])]
    /\ UNCHANGED <<envDegraded, batch, cfgs, batchResults, pollerVars>>

\* runProviderChecks() settles: it resolves with every result once all checks
\* have returned, and rejects as soon as a check has rejected
BatchSettle ==
    /\ batch = "running"
    /\ \/ \E i \in Providers : chk[i].pc = "rejected"
       \/ \A i \in Providers : chk[i].pc = "done"
    /\ IF \E i \in Providers : chk[i].pc = "rejected"
       THEN batch' = "rejected" /\ UNCHANGED batchResults
       ELSE /\ batch' = "resolved"
            /\ batchResults' = [i \in Providers |-> chk[i].result]
    /\ UNCHANGED <<envDegraded, cfgs, chk, pollerVars>>

CheckIdle ==
    /\ batch = "idle"
    /\ chk = [i \in Providers |-> IdleCheck]
    /\ batchResults = <<>>

CheckNext ==
    \/ BatchStart
    \/ \E i \in Providers : PingSettle(i)
    \/ \E i \in Providers : DeadlineFire(i)
    \/ \E i \in Providers : AiStreamSettle(i)
    \/ \E i \in Providers : GeminiResponse(i)
    \/ \E i \in Providers : GeminiAttemptSettle(i)
    \/ \E i \in Providers : ReplyFinish(i)
    \/ \E i \in Providers : CatchFinish(i)
    \/ BatchSettle

\* ------------------------------------------------ claims on provider checks
LastInput(i) == chk[i].inputs[Len(chk[i].inputs)]

RECURSIVE SumDurations(_)
SumDurations(ins) ==
    IF ins = <<>> THEN 0 ELSE ins[1].d + SumDurations(Tail(ins))

\* the reply text holds the decimal rendering of a + b
HoldsSum(text, a, b) == \E k \in 1..Len(text) : text[k] = ToDecimal(a + b)
NonBlank(text) == \E k \in 1..Len(text) : text[k] # " "

\* C8: checkWithAiSdk and checkWithGeminiNative never reject and return
\* exactly one CheckResult whatever the adapter outcome; an unsupported
\* provider type yields a failed result, and the batch still resolves.
C8_AlwaysOneResult ==
    /\ \A i \in Providers :
          /\ chk[i].pc # "rejected"
          /\ chk[i].pc = "done" => chk[i].result.status \in Statuses
          /\ chk[i].pc # "done" => chk[i].result = NoResult
          /\ (chk[i].pc = "done" /\ chk[i].type \notin SupportedTypes) =>
                /\ chk[i].result.status = "failed"
                /\ chk[i].result.message.kind = "RAW"
    /\ batch # "rejected"
    /\ batch = "resolved" =>
          \A i \in Providers : batchResults[i].status \in Statuses

\* C8 witness: the batch resolved with a failed result for the unsupported
\* provider, an error result for a transport fault and nothing rejected
C8_Witness ==
    /\ batch = "resolved"
    /\ \E i \in Providers :
          /\ chk[i].type = "bogus"
          /\ batchResults[i].status = "failed"
          /\ batchResults[i].message = MsgRaw(UnsupportedErr.message)
    /\ \E j \in Providers :
          /\ chk[j].kind = "gemini"
          /\ chk[j].error = TransportErr
          /\ batchResults[j].status = "error"

\* the result of check i as a function of what check i itself was given: its
\* config, its challenge, the outcomes of its own adapter calls and its ping
C9_OwnResult(i) ==
    LET c == chk[i]
        ins == c.inputs
        expected == ToDecimal(c.a + c.b)
        total == SumDurations(ins)
        thr == IF cfgs[i] = "gemini" /\ envDegraded # 0 THEN envDegraded
               ELSE DEGRADED_THRESHOLD_MS
        errMsg(e) == IF e.name = "AbortError" THEN MsgTimeout
                     ELSE IF e.message = <<>> THEN MsgUnknown ELSE MsgRaw(e.message)
        nums(t) == SelectSeq(t, LAMBDA x : x \in {"0", "1", "2", "3", "4", "5", "6", "7", "8", "9"})
    IN  IF cfgs[i] \notin {"openai", "anthropic", "gemini"}
        THEN [status |-> "failed", latencyMs |-> NullMs, pingLatencyMs |-> c.pingMs,
              message |-> MsgRaw(IF c.endpoint = "unset" THEN UndefinedSplitErr.message
                                 ELSE UnsupportedErr.message)]
        ELSE IF ins = <<>> THEN NoResult
        ELSE LET last == ins[Len(ins)] IN
             IF last.error # NoError
             THEN IF cfgs[i] = "gemini"
                  THEN [status |-> "error", latencyMs |-> total,
                        pingLatencyMs |-> c.pingMs, message |-> errMsg(last.error)]
                  ELSE [status |-> "failed", latencyMs |-> NullMs,
                        pingLatencyMs |-> c.pingMs, message |-> errMsg(last.error)]
             ELSE IF ~NonBlank(last.text)
             THEN [status |-> "failed", latencyMs |-> total,
                   pingLatencyMs |-> c.pingMs, message |-> MsgEmpty]
             ELSE IF ~HoldsSum(last.text, c.a, c.b)
             THEN [status |-> "validation_failed", latencyMs |-> total,
                   pingLatencyMs |-> c.pingMs,
                   message |-> MsgInvalid(expected, nums(last.text))]
             ELSE IF total <= thr
             THEN [status |-> "operational", latencyMs |-> total,
                   pingLatencyMs |-> c.pingMs, message |-> MsgPassed(total)]
             ELSE [status |-> "degraded", latencyMs |-> total,
                   pingLatencyMs |-> c.pingMs, message |-> MsgSlow(total)]

\* C9: within one batch the result of a provider's check is a function of that
\* provider's own config, challenge, adapter outcomes and ping, whatever the
\* other provider's check does; an error reaches a check's catch block only
\* from its own adapter call, and the batch resolves with every provider's
\* own result at that provider's position.
C9_Isolated ==
    /\ \A i \in Providers :
          /\ chk[i].pc = "done" => chk[i].result = C9_OwnResult(i)
          /\ chk[i].pc = "catch" =>
                \/ /\ chk[i].type = "bogus"
                   /\ chk[i].error = IF chk[i].endpoint = "unset"
                                     THEN UndefinedSplitErr ELSE UnsupportedErr
                \/ chk[i].inputs # <<>> /\ chk[i].error = LastInput(i).error
          /\ chk[i].pc \in {"stream", "req1", "req2", "reply"} => chk[i].error = NoError
    /\ batch = "resolved" =>
          \A i \in Providers : batchResults[i] = C9_OwnResult(i)

\* C9 witness: one check ran into its deadline while the other, given a right
\* answer at the threshold latency, came out operational
C9_Witness ==
    /\ batch = "resolved"
    /\ \E i, j \in Providers :
          /\ i # j
          /\ chk[i].error = AbortErr
          /\ batchResults[i].message = MsgTimeout
          /\ batchResults[j].status = "operational"
          /\ batchResults[j].latencyMs = DEGRADED_THRESHOLD_MS

\* a check that was given a non-blank reply holding the expected answer
C10_ValidReply(i) ==
    /\ chk[i].pc = "done"
    /\ chk[i].inputs # <<>>
    /\ LastInput(i).error = NoError
    /\ NonBlank(LastInput(i).text)
    /\ HoldsSum(LastInput(i).text, chk[i].a, chk[i].b)

\* C10: for a non-empty reply that passes validation the status is operational
\* iff latencyMs <= the degraded threshold (6000 unless overridden for the
\* Gemini native check) and degraded iff latencyMs > it; latencyMs is the
\* elapsed time, and only status and message differ between the two.
C10_ThresholdClassification ==
    \A i \in Providers :
        C10_ValidReply(i) =>
            LET r == chk[i].result
                thr == IF chk[i].kind = "aisdk" \/ envDegraded = 0
                       THEN 6000 ELSE envDegraded
            IN  /\ r.status \in {"operational", "degraded"}
                /\ r.status = "operational" <=> r.latencyMs <= thr
                /\ r.status = "degraded" <=> r.latencyMs > thr
                /\ r.latencyMs = SumDurations(chk[i].inputs)
                /\ r.latencyMs = chk[i].elapsed
                /\ r.message.kind = (IF r.status = "operational" THEN "PASSED" ELSE "SLOW")
                /\ r.message.ms = r.latencyMs
                /\ r.pingLatencyMs = chk[i].pingMs

\* C10 witness: the same right answer at exactly the threshold is operational,
\* and one millisecond later degraded
C10_Witness ==
    /\ envDegraded = 0
    /\ \E i, j \in Providers :
          /\ C10_ValidReply(i) /\ C10_ValidReply(j)
          /\ chk[i].result.latencyMs = 6000 /\ chk[i].result.status = "operational"
          /\ chk[j].result.latencyMs = 6001 /\ chk[j].result.status = "degraded"
          /\ LastInput(i).text = LastInput(j).text

\* a check that was given a non-blank reply not holding the expected answer
C11_WrongReply(i) ==
    /\ chk[i].pc = "done"
    /\ chk[i].inputs # <<>>
    /\ LastInput(i).error = NoError
    /\ NonBlank(LastInput(i).text)
    /\ ~HoldsSum(LastInput(i).text, chk[i].a, chk[i].b)

\* the numbers of a reply, in order
C11_Numbers(text) == SelectSeq(text, IsNumeric)

\* C11: a non-empty reply whose numbers do not include the expected answer
\* yields validation_failed on either side of the degraded threshold, never
\* operational or degraded; latencyMs is the elapsed time and the message
\* carries the expected answer and the extracted numbers, or the no-number
\* placeholder when the reply held none.
C11_WrongAnswerFailsValidation ==
    \A i \in Providers :
        C11_WrongReply(i) =>
            LET r == chk[i].result
                nums == C11_Numbers(LastInput(i).text)
            IN  /\ r.status = "validation_failed"
                /\ r.latencyMs = chk[i].elapsed
                /\ r.latencyMs = SumDurations(chk[i].inputs)
                /\ r.message.kind = "INVALID"
                /\ r.message.expected = ToDecimal(chk[i].a + chk[i].b)
                /\ r.message.actual = (IF nums = <<>> THEN <<"(none)">> ELSE nums)

\* C11 witness: a reply with a wrong number at the threshold latency and a
\* reply without any number above it both came out validation_failed
C11_Witness ==
    \E i, j \in Providers :
        /\ C11_WrongReply(i) /\ C11_WrongReply(j)
        /\ C11_Numbers(LastInput(i).text) # <<>>
        /\ chk[i].result.latencyMs <= DEGRADED_THRESHOLD_MS
        /\ chk[i].result.status = "validation_failed"
        /\ C11_Numbers(LastInput(j).text) = <<>>
        /\ chk[j].result.latencyMs > DEGRADED_THRESHOLD_MS
        /\ chk[j].result.message.actual = <<"(none)">>

\* a check whose adapter returned a reply that is empty after trimming
C12_EmptyReply(i) ==
    /\ chk[i].pc = "done"
    /\ chk[i].inputs # <<>>
    /\ LastInput(i).error = NoError
    /\ ~NonBlank(LastInput(i).text)

\* C12: a reply that is empty after trimming yields failed with the fixed
\* empty-reply message and latencyMs = elapsed, and validateResponse is not
\* invoked for that check; validateResponse is invoked only on a non-empty
\* trimmed text, once.
C12_EmptyReplyFailsUnvalidated ==
    \A i \in Providers :
        /\ C12_EmptyReply(i) =>
              /\ chk[i].result.status = "failed"
              /\ chk[i].result.message = MsgEmpty
              /\ chk[i].result.latencyMs = chk[i].elapsed
              /\ chk[i].result.latencyMs = SumDurations(chk[i].inputs)
              /\ chk[i].validated = 0
        /\ chk[i].validated \in {0, 1}
        /\ chk[i].validated = 1 =>
              chk[i].pc = "done" /\ LastInput(i).error = NoError
                                /\ NonBlank(LastInput(i).text)

\* C12 witness: one check got a whitespace-only reply and came out failed
\* without a validation, the other validated its non-empty reply
C12_Witness ==
    \E i, j \in Providers :
        /\ C12_EmptyReply(i)
        /\ LastInput(i).text = <<" ">>
        /\ chk[i].result.status = "failed"
        /\ chk[i].validated = 0
        /\ chk[j].pc = "done"
        /\ chk[j].validated = 1

\* a finished check whose result was built by its catch block
C13_Threw(i) == chk[i].pc = "done" /\ chk[i].error # NoError

\* C13 as stated: for both checks latencyMs is null if and only if the check
\* ended on the no-response failure path (the adapter call threw)
C13_NullIffNoResponse ==
    \A i \in Providers :
        chk[i].pc = "done" =>
            (chk[i].result.latencyMs = NullMs <=> C13_Threw(i))

\* C13: latencyMs is null if and only if the result was built by the catch
\* block of checkWithAiSdk; the catch block of checkWithGeminiNative reports
\* the time elapsed until the throw, so its latencyMs is never null; on the
\* empty-reply, validation_failed, operational and degraded paths of both
\* checks latencyMs is the non-null elapsed time.
C13_NullOnlyFromAiSdkCatch ==
    \A i \in Providers :
        chk[i].pc = "done" =>
            LET r == chk[i].result IN
            /\ r.latencyMs = NullMs <=> (C13_Threw(i) /\ chk[i].kind = "aisdk")
            /\ (C13_Threw(i) /\ chk[i].kind = "gemini") =>
                  /\ r.status = "error"
                  /\ r.latencyMs = chk[i].elapsed
                  /\ r.latencyMs = SumDurations(chk[i].inputs)
            /\ ~C13_Threw(i) =>
                  /\ r.status \in {"failed", "validation_failed", "operational", "degraded"}
                  /\ r.latencyMs = chk[i].elapsed
                  /\ r.latencyMs # NullMs

\* C13 witness: the same transport fault left the AI SDK check without a
\* latency and the Gemini check with the elapsed time
C13_Witness ==
    \E i, j \in Providers :
        /\ C13_Threw(i) /\ chk[i].kind = "aisdk" /\ chk[i].error = TransportErr
        /\ chk[i].result.latencyMs = NullMs
        /\ C13_Threw(j) /\ chk[j].kind = "gemini" /\ chk[j].error = TransportErr
        /\ chk[j].result.status = "error"
        /\ chk[j].result.latencyMs = DEGRADED_THRESHOLD_MS

\* C14 as stated: on the failure path of either check a deadline expiry (and
\* an empty reply) yields failed, and a lower-level transport fault yields
\* error
C14_CauseDecidesStatus ==
    \A i \in Providers :
        /\ (C13_Threw(i) /\ chk[i].error = AbortErr) => chk[i].result.status = "failed"
        /\ C12_EmptyReply(i) => chk[i].result.status = "failed"
        /\ (C13_Threw(i) /\ chk[i].error = TransportErr) =>
              chk[i].result.status = "error"

\* C14: on the failure path the status follows the check, not the cause: any
\* error thrown by the adapter call of checkWithAiSdk (deadline expiry,
\* transport fault, HTTP error, unsupported type) yields failed, any error
\* thrown in checkWithGeminiNative (deadline expiry included) yields error,
\* and an empty reply yields failed in both.
C14_CheckDecidesStatus ==
    \A i \in Providers :
        /\ (C13_Threw(i) /\ chk[i].kind = "aisdk") => chk[i].result.status = "failed"
        /\ (C13_Threw(i) /\ chk[i].kind = "gemini") => chk[i].result.status = "error"
        /\ C12_EmptyReply(i) => chk[i].result.status = "failed"
        /\ (chk[i].pc = "done" /\ chk[i].result.status = "error") =>
              chk[i].kind = "gemini" /\ C13_Threw(i)

\* C14 witness: a transport fault in the AI SDK check came out failed while a
\* deadline expiry in the Gemini check came out error
C14_Witness ==
    \E i, j \in Providers :
        /\ C13_Threw(i) /\ chk[i].kind = "aisdk" /\ chk[i].error = TransportErr
        /\ chk[i].result.status = "failed"
        /\ C13_Threw(j) /\ chk[j].kind = "gemini" /\ chk[j].error = AbortErr
        /\ chk[j].result.status = "error"

\* C15: a check whose deadline fired before any text had arrived ends with
\* status failed or error and with exactly the fixed timeout message, whether
\* the abort came while connecting, while the response body was being read
\* or while the stream was being read.
C15_DeadlineRendersTimeout ==
    \A i \in Providers :
        (chk[i].pc = "done" /\ chk[i].aborted) =>
            /\ chk[i].result.status \in {"failed", "error"}
            /\ chk[i].result.message = MsgTimeout

\* C16: each check has a single deadline 45 s after its start, so every
\* transport call of a check, the Gemini generateContent retry included, has
\* ended by 45 s after the check started (elapsed is the time from the start
\* of the check to the end of its latest call).
C16_SingleDeadline ==
    \A i \in Providers :
        /\ chk[i].elapsed <= DEFAULT_TIMEOUT_MS
        /\ chk[i].timers <= 1

\* an attempt that returned blank text without throwing
C17_ReturnedBlank(in) == in.error = NoError /\ ~NonBlank(in.text)

\* C17: checkWithGeminiNative issues at most two requests per check; the
\* second (generateContent, pc "req2") is issued iff the first
\* (streamGenerateContent, pc "req1") returned blank text without throwing,
\* so there is no third request, no retry after a thrown error and no retry
\* after a non-blank reply; the check reports the empty reply only when both
\* attempts returned blank text.
C17_TwoAttemptPolicy ==
    \A i \in Providers :
        chk[i].kind = "gemini" =>
            LET c == chk[i] IN
            /\ c.requests \in {1, 2}
            /\ Len(c.inputs) <= c.requests
            /\ c.requests = 2 <=>
                  (c.inputs # <<>> /\ C17_ReturnedBlank(c.inputs[1]))
            /\ c.pc = "req1" => c.requests = 1 /\ c.inputs = <<>>
            /\ c.pc = "req2" => c.requests = 2 /\ Len(c.inputs) = 1
            /\ (c.pc = "done" /\ c.result.message = MsgEmpty) =>
                  /\ c.result.status = "failed"
                  /\ Len(c.inputs) = 2
                  /\ C17_ReturnedBlank(c.inputs[1])
                  /\ C17_ReturnedBlank(c.inputs[2])

\* C17 witness: both attempts of a Gemini check returned blank text and the
\* check reported the empty reply after exactly two requests
C17_Witness ==
    \E i \in Providers :
        /\ chk[i].kind = "gemini"
        /\ chk[i].pc = "done"
        /\ chk[i].requests = 2
        /\ ~chk[i].aborted
        /\ C17_ReturnedBlank(chk[i].inputs[1])
        /\ C17_ReturnedBlank(chk[i].inputs[2])
        /\ chk[i].result.message = MsgEmpty

\* the fields of a result other than pingLatencyMs
C18_Core(r) == <<r.status, r.latencyMs, r.message>>

\* the result check i would have built had its ping come out as p, all else
\* being the same
C18_WithPing(i, p) ==
    LET c == [chk[i] EXCEPT !.pingMs = p]
    IN  IF c.error # NoError THEN catchResult(c) ELSE replyResult(c)

\* two finished checks of the same adapter that were given the same challenge
\* and the same adapter outcomes
C18_SameRun(i, j) ==
    /\ chk[i].pc = "done" /\ chk[j].pc = "done"
    /\ chk[i].kind = chk[j].kind
    /\ chk[i].a = chk[j].a /\ chk[i].b = chk[j].b
    /\ chk[i].inputs = chk[j].inputs
    /\ chk[i].error = chk[j].error

\* C18: status, latencyMs and message of a result do not depend on the ping:
\* replacing the ping outcome of a finished check by any other outcome (a
\* number or null) gives the same three fields, and two checks that differ
\* only in their ping outcome and in when the ping settled have the same
\* three fields; only pingLatencyMs follows the ping.
C18_PingIndependent ==
    /\ \A i \in Providers :
          chk[i].pc = "done" =>
              \A p \in PingResults :
                  /\ C18_Core(C18_WithPing(i, p)) = C18_Core(chk[i].result)
                  /\ C18_WithPing(i, p).pingLatencyMs = p
    /\ \A i, j \in Providers :
          C18_SameRun(i, j) => C18_Core(chk[i].result) = C18_Core(chk[j].result)

\* C18 witness: two checks given the same right answer, one with a failed
\* ping and one with a measured ping, both came out operational with the same
\* latency and message
C18_Witness ==
    \E i, j \in Providers :
        /\ C18_SameRun(i, j)
        /\ chk[i].pingMs = NullMs /\ chk[j].pingMs # NullMs
        /\ chk[i].result.status = "operational"
        /\ C18_Core(chk[i].result) = C18_Core(chk[j].result)
        /\ chk[i].result.pingLatencyMs # chk[j].result.pingLatencyMs

\* C19: the ping of a check is started before its adapter call is dispatched
\* and is awaited only once the adapter call has finished: while the call is
\* in flight the ping is already running and the call can proceed whether or
\* not the ping has settled, a check whose call has finished returns only
\* after the ping has settled, and on every branch the result's pingLatencyMs
\* is the ping's outcome (null for a failed ping).
C19_PingConcurrent ==
    \A i \in Providers :
        /\ chk[i].pc # "idle" => chk[i].ping # "none"
        /\ CallInFlight(i) =>
              ENABLED (AiStreamSettle(i) \/ GeminiResponse(i) \/ GeminiAttemptSettle(i))
        /\ (chk[i].pc \in {"reply", "catch"} /\ chk[i].ping = "pending") =>
              ~ENABLED (ReplyFinish(i) \/ CatchFinish(i))
        /\ chk[i].pc = "done" =>
              /\ chk[i].ping = "settled"
              /\ chk[i].result.pingLatencyMs = chk[i].pingMs
        /\ chk[i].pc # "done" => chk[i].result = NoResult

\* C19 witness: the adapter call of one check has thrown while its ping is
\* still pending, and the other check returned validation_failed carrying
\* its measured ping
C19_Witness ==
    \E i, j \in Providers :
        /\ chk[i].pc = "catch" /\ chk[i].inputs # <<>> /\ chk[i].ping = "pending"
        /\ chk[j].pc = "done"
        /\ chk[j].result.status = "validation_failed"
        /\ chk[j].pingMs # NullMs
        /\ chk[j].result.pingLatencyMs = chk[j].pingMs

\* =========================================================================
\*                        GEMINI EVENT-STREAM PARSER
\* =========================================================================
\* a text is a sequence of characters
Alphabet == {"a", "b", " "}
Texts == UNION {[1..n -> Alphabet] : n \in 0..MaxTextLen}

\* string | null
NullText == [null |-> TRUE, s |-> <<>>]
SomeText(s) == [null |-> FALSE, s |-> s]

\* s.trim() === ""
IsBlank(s) == \A k \in 1..Len(s) : s[k] = " "

\* s.startsWith(p)
StartsWith(s, p) == Len(p) <= Len(s) /\ SubSeq(s, 1, Len(p)) = p

\* the payload of one event, as handlePayload sees it: whitespace only, the
\* [DONE] sentinel, text that is not JSON, the JSON literal null, or a JSON
\* object with one candidate whose content has the given text parts
NoPayload == [kind |-> "none", parts |-> <<>>]
Payloads ==
    {[kind |-> k, parts |-> <<>>] : k \in {"blank", "done", "malformed", "null", "object"}}
    \cup {[kind |-> "object", parts |-> <<t>>] : t \in Texts}

Streams == UNION {[1..n -> Payloads] : n \in 0..MaxEvents}

\* texts.join("")
RECURSIVE Join(_)
Join(texts) == IF texts = <<>> THEN <<>> ELSE texts[1] \o Join(Tail(texts))

\* part_002:83-118, extractGeminiText for an object payload: the text parts
\* that are not empty, joined; null when there are none or the join is blank
extractObjectText(payload) ==
    LET texts == SelectSeq(payload.parts, LAMBDA t : t # <<>>)
        combined == Join(texts)
    IN  IF payload.kind # "object" THEN NullText
        ELSE IF Len(texts) > 0 /\ ~IsBlank(combined) THEN SomeText(combined)
        ELSE NullText

\* part_002:68-119, extractGeminiText: for an array payload (74-82) the text
\* of the last element that has one, each element read by extractGeminiText
\* itself; null for null and for a number
RECURSIVE extractGeminiText(_)
extractGeminiText(payload) ==
    IF payload.kind = "array"
    THEN LET hits == {k \in 1..Len(payload.items) :
                         ~extractGeminiText(payload.items[k]).null}
         IN  IF hits = {} THEN NullText
             ELSE extractGeminiText(
                      payload.items[CHOOSE k \in hits : \A j \in hits : j <= k])
    ELSE extractObjectText(payload)

mergeStreamTextAppend(previous, next) ==
    IF previous.null THEN next ELSE previous.s \o next

\* part_002:121-132
mergeStreamText(previous, next) ==
    IF previous.null \/ previous.s = <<>> THEN next
    ELSE IF StartsWith(next, previous.s) THEN next
    ELSE IF StartsWith(previous.s, next) THEN previous.s
    ELSE previous.s \o next

\* part_002:226-235, the payloads handlePayload parses and keeps
Parsed(payload) == payload.kind \in {"object", "array", "number"}

\* part_002:236-239, `text` after handlePayload(payload)
handlePayloadText(text, payload) ==
    LET extracted == extractGeminiText(payload) IN
    IF Parsed(payload) /\ ~extracted.null /\ ~IsBlank(extracted.s)
    THEN SomeText(mergeStreamText(text, extracted.s))
    ELSE text

\* part_002:226-245, handlePayload on the next payload of the stream
HandlePayload ==
    /\ events # <<>>
    /\ returned.null
    /\ LET payload == Head(events) IN
          /\ parserText' = handlePayloadText(parserText, payload)
          /\ lastPayload' = IF Parsed(payload) THEN payload ELSE lastPayload
          /\ handled' = Append(handled, payload)
    /\ events' = Tail(events)
    /\ UNCHANGED <<returned, pollerVars, checkVars>>

\* part_002:305 and 373-379, the stream has ended: readEventStreamText returns
\* { text, lastPayload } and requestGeminiNative returns the text, or "" when
\* there is none
StreamEnd ==
    /\ events = <<>>
    /\ returned.null
    /\ returned' = IF ~parserText.null /\ ~IsBlank(parserText.s)
                   THEN SomeText(parserText.s) ELSE SomeText(<<>>)
    /\ UNCHANGED <<events, handled, parserText, lastPayload, pollerVars, checkVars>>

StreamIdle ==
    /\ events = <<>>
    /\ handled = <<>>
    /\ parserText = NullText
    /\ lastPayload = NoPayload
    /\ returned = NullText

StreamNext == HandlePayload \/ StreamEnd

\* the fragments handled so far: the texts of the events that carried one
C20_Fragments ==
    LET withText == SelectSeq(handled, LAMBDA e : e.kind = "object" /\ Join(e.parts) # <<>>)
    IN  [k \in 1..Len(withText) |-> Join(withText[k].parts)]

\* every fragment has the fragment before it as a prefix
C20_Cumulative(frags) ==
    \A k \in 2..Len(frags) : StartsWith(frags[k], frags[k - 1])

\* a fragment that is a prefix of the accumulated text leaves it unchanged
C20_PrefixKeepsText ==
    \A t \in Texts :
        (~parserText.null /\ StartsWith(parserText.s, t)) =>
            handlePayloadText(parserText, [kind |-> "object", parts |-> <<t>>]) = parserText

\* C20 as stated: for any cumulative sequence of fragments the reconstructed
\* text equals the last fragment, and a fragment that is a prefix of the
\* accumulated text leaves it unchanged
C20_CumulativeGivesLast ==
    LET frags == C20_Fragments IN
    /\ (frags # <<>> /\ C20_Cumulative(frags)) =>
          parserText = SomeText(frags[Len(frags)])
    /\ C20_PrefixKeepsText

\* C20: for any cumulative sequence of fragments whose last fragment is not
\* blank the reconstructed text equals the last fragment, with no
\* duplication; whitespace-only fragments are not merged, so a cumulative
\* sequence of blank fragments reconstructs no text and the request returns
\* ""; a fragment that is a prefix of the accumulated text leaves it unchanged.
C20_CumulativeGivesLastNonBlank ==
    LET frags == C20_Fragments IN
    /\ (frags # <<>> /\ C20_Cumulative(frags)) =>
          IF IsBlank(frags[Len(frags)])
          THEN parserText = NullText
          ELSE parserText = SomeText(frags[Len(frags)])
    /\ (frags # <<>> /\ C20_Cumulative(frags) /\ ~returned.null) =>
          returned.s = (IF IsBlank(frags[Len(frags)]) THEN <<>> ELSE frags[Len(frags)])
    /\ C20_PrefixKeepsText

\* C20 witness: a stream of two growing fragments, the second longer than the
\* first, was read to its end and gave back the second fragment
C20_Witness ==
    LET frags == C20_Fragments IN
    /\ Len(frags) >= 2
    /\ C20_Cumulative(frags)
    /\ Len(frags[1]) < Len(frags[2])
    /\ ~IsBlank(frags[1])
    /\ parserText = SomeText(frags[Len(frags)])
    /\ ~returned.null
    /\ returned.s = frags[Len(frags)]

\* C21: for any incremental sequence of fragments f1..fn (each event carries
\* only the newly produced text) the reconstructed text is f1 + f2 + ... + fn:
\* no fragment is dropped or duplicated. Stated here for the sequences whose
\* fragments all hold a visible character.
C21_IncrementalGivesConcat ==
    LET frags == C20_Fragments IN
    (frags # <<>> /\ \A k \in 1..Len(frags) : ~IsBlank(frags[k])) =>
        parserText = SomeText(Join(frags))

\* =========================================================================
\*                                TUNABLES
\* =========================================================================
\* the values the DEGRADED_THRESHOLD_MS setting may take (0: unset)
TuneThresholds == EnvThresholds \cup {DEGRADED_THRESHOLD_MS - 1}
\* the values the poll interval setting may take (0: unset)
TuneIntervals == {0, 30000}
DefaultPollIntervalMs == 60000
\* the latencies of the checks run
TuneLatencies == Durations \cup {DEGRADED_THRESHOLD_MS - 1}

\* part_002:18, Number(process.env.DEGRADED_THRESHOLD_MS) || 6_000
readThreshold(e) == IF e # 0 THEN e ELSE DEGRADED_THRESHOLD_MS

\* polling-config: getPollingIntervalMs() reads the interval setting
getPollingIntervalMs(e) == IF e # 0 THEN e ELSE DefaultPollIntervalMs

NoCheck == [kind |-> "", latencyMs |-> 0, threshold |-> 0, deadline |-> 0,
            status |-> "none", envThreshold |-> 0]
NoSchedule == [delay |-> 0, envInterval |-> 0]

\* the threshold a check compares with: the constant of the evaluation of
\* the module that made the function called (part_002:18 and 499-500), for
\* an AI SDK check the literal of ai-sdk-check.ts:37 (592-593)
thresholdAtCheck(kind, instanceThreshold) ==
    IF kind = "gemini" THEN instanceThreshold ELSE DEGRADED_THRESHOLD_MS

\* the environment is changed while the process runs; no statement of a
\* module is run by that
SetEnv ==
    /\ \E t \in TuneThresholds, p \in TuneIntervals :
          /\ [threshold |-> t, interval |-> p] # env
          /\ env' = [threshold |-> t, interval |-> p]
    /\ UNCHANGED <<loadedThreshold, instances, loadedInterval, registeredInterval,
                   pendingCheck, lastCheck, lastSchedule>>

\* the module bodies are run again in the same process, as poller.ts:100
\* provides for: part_002:18 and poller.ts:5 read the environment as it is
\* now, which gives a checkWithGeminiNative with the new constant beside
\* those of the earlier evaluations; the interval timer exists already, so
\* setInterval is not called (poller.ts:100-108) and the delay stays
TuneModuleEval ==
    /\ loadedThreshold' = readThreshold(env.threshold)
    /\ instances' = instances \cup {readThreshold(env.threshold)}
    /\ loadedInterval' = getPollingIntervalMs(env.interval)
    /\ <<loadedThreshold', loadedInterval'>> # <<loadedThreshold, loadedInterval>>
    /\ UNCHANGED <<env, registeredInterval, pendingCheck, lastCheck, lastSchedule>>

\* a check starts: its timer is armed with the deadline constant
\* (ai-sdk-check.ts:520 and 31, part_002:317-321 and 15) and the threshold
\* it will compare with is the constant of the evaluation whose function
\* is called, any of those made so far: the caller, runProviderChecks, is
\* not part of the sources read here. The check then awaits its reply
CheckStart ==
    /\ pendingCheck = NoCheck
    /\ \E kind \in {"aisdk", "gemini"}, instanceThreshold \in instances :
          pendingCheck' = [kind |-> kind, latencyMs |-> 0,
                           threshold |-> thresholdAtCheck(kind, instanceThreshold),
                           deadline |-> DEFAULT_TIMEOUT_MS,
                           status |-> "running",
                           envThreshold |-> env.threshold]
    /\ UNCHANGED <<env, loadedThreshold, instances, loadedInterval,
                   registeredInterval, lastCheck, lastSchedule>>

\* the check in flight gets a validated reply: its latency is compared with
\* the constant it started with (ai-sdk-check.ts:592-593, part_002:499-500),
\* whatever the environment holds by now
CheckFinish ==
    /\ pendingCheck # NoCheck
    /\ \E ms \in TuneLatencies :
          lastCheck' = [pendingCheck EXCEPT
                           !.latencyMs = ms,
                           !.status = classify(ms, pendingCheck.threshold)]
    /\ pendingCheck' = NoCheck
    /\ UNCHANGED <<env, loadedThreshold, instances, loadedInterval,
                   registeredInterval, lastSchedule>>

\* poller.ts:105-107, the interval timer fires: setInterval repeats with the
\* delay it was registered with
IntervalFire ==
    /\ lastSchedule' = [delay |-> registeredInterval, envInterval |-> env.interval]
    /\ lastSchedule' # lastSchedule
    /\ UNCHANGED <<env, loadedThreshold, instances, loadedInterval,
                   registeredInterval, pendingCheck, lastCheck>>

TuneIdle ==
    /\ env = [threshold |-> 0, interval |-> 0]
    /\ loadedThreshold = DEGRADED_THRESHOLD_MS
    /\ instances = {DEGRADED_THRESHOLD_MS}
    /\ loadedInterval = DefaultPollIntervalMs
    /\ registeredInterval = DefaultPollIntervalMs
    /\ pendingCheck = NoCheck
    /\ lastCheck = NoCheck
    /\ lastSchedule = NoSchedule

TuneNext == SetEnv \/ TuneModuleEval \/ CheckStart \/ CheckFinish \/ IntervalFire

\* C22: the degraded-latency threshold, the per-check deadline ceiling and
\* the poll interval are re-read at the start of each operation: a change to
\* a tunable made between two checks or two ticks is honoured by the next
\* check and by the next scheduling. So every check compares with the
\* threshold the environment held when it started, and every interval fire
\* is followed by a delay of the interval the environment holds then.
C22_RereadEachOperation ==
    /\ lastCheck # NoCheck =>
          lastCheck.threshold = readThreshold(lastCheck.envThreshold)
    /\ lastSchedule # NoSchedule =>
          lastSchedule.delay = getPollingIntervalMs(lastSchedule.envInterval)

\* =========================================================================
\*                          GEMINI CLIENT CACHE
\* =========================================================================
\* endpoints and keys are strings, written as sequences of pieces none of
\* which is a prefix of another, so two sequences are equal exactly when the
\* strings are
Endpoints == {<<>>, <<"h">>, <<"h", ":">>, <<"h", "/v1">>,
              <<"h", "/v1", "/chat/completions">>, <<"h", "?q">>}
ApiKeys == {<<"k">>, <<":", "k">>, <<"j">>}
Configs == [endpoint : Endpoints, apiKey : ApiKeys]

\* DEFAULT_ENDPOINTS.gemini (../types)
DefaultGeminiEndpoint == <<"default", "/v1">>

\* the pieces of s before the first piece p, all of s when there is none
Before(s, p) ==
    IF \E k \in 1..Len(s) : s[k] = p
    THEN SubSeq(s, 1, (CHOOSE k \in 1..Len(s) :
                           s[k] = p /\ \A m \in 1..(k - 1) : s[m] # p) - 1)
    ELSE s

\* the pieces of s up to and including the first piece p
Through(s, p) ==
    IF \E k \in 1..Len(s) : s[k] = p THEN Before(s, p) \o <<p>> ELSE s

\* gemini-native.ts:446-466, deriveGeminiBaseURL: the default for a missing
\* endpoint, the query dropped, cut before /chat/completions and after /v1
deriveGeminiBaseURL(endpoint) ==
    LET raw == IF endpoint = <<>> THEN DefaultGeminiEndpoint ELSE endpoint
        withoutQuery == Before(raw, "?q")
        base == Before(withoutQuery, "/chat/completions")
    IN  Through(base, "/v1")

\* gemini-native.ts:473, `${baseURL}::${config.apiKey}`
cacheKey(baseURL, apiKey) == baseURL \o <<":", ":">> \o apiKey

NoClient == [apiKey |-> <<>>, baseURL |-> <<>>]
NoConfig == [endpoint |-> <<>>, apiKey |-> <<>>]

\* gemini-native.ts:471-490, getGeminiClient(config): the cached client of the
\* key, or a new client that is cached under it
getGeminiClient(config) ==
    LET baseURL == deriveGeminiBaseURL(config.endpoint)
        key == cacheKey(baseURL, config.apiKey)
    IN  /\ key \in DOMAIN geminiClientCache \/
              Cardinality(DOMAIN geminiClientCache) < MaxClients
        /\ IF key \in DOMAIN geminiClientCache
           THEN /\ lastClient' = geminiClientCache[key]
                /\ UNCHANGED geminiClientCache
           ELSE LET client == [apiKey |-> config.apiKey, baseURL |-> baseURL] IN
                /\ lastClient' = client
                /\ geminiClientCache' =
                      [k \in DOMAIN geminiClientCache \cup {key} |->
                          IF k = key THEN client ELSE geminiClientCache[k]]
        /\ lastConfig' = config

GetClient == \E config \in Configs : getGeminiClient(config)

CacheIdle ==
    /\ geminiClientCache = <<>>
    /\ lastConfig = NoConfig
    /\ lastClient = NoClient

CacheNext == GetClient

\* C23: a cached client is returned only for a config whose derived base URL
\* and apiKey both equal those the client was created with, so two configs
\* whose apiKey values differ never get the same cached client.
C23_ClientMatchesConfig ==
    lastConfig # NoConfig =>
        /\ lastClient.apiKey = lastConfig.apiKey
        /\ lastClient.baseURL = deriveGeminiBaseURL(lastConfig.endpoint)

\* =========================================================================
\*                         OFFICIAL GEMINI STATUS
\* =========================================================================
\* an element of incidents.json: whether it names the Gemini product and is
\* still active, its status_impact and severity; or a JSON null
NullIncident == [isNull |-> TRUE, gemini |-> FALSE, active |-> FALSE,
                 impact |-> "", severity |-> ""]
Incidents ==
    {NullIncident} \cup
    [isNull : {FALSE}, gemini : BOOLEAN, active : BOOLEAN,
     impact : {"", "SERVICE_OUTAGE", "SERVICE_DISRUPTION"},
     severity : {"", "high", "low"}]

\* what the body of a 2xx response parses to: not JSON at all, a JSON value
\* that is no array, or an array of incidents
Bodies ==
    {[kind |-> k, incidents |-> <<>>] : k \in {"malformed", "object"}}
    \cup {[kind |-> "array", incidents |-> is] :
             is \in UNION {[1..n -> Incidents] : n \in 0..MaxIncidents}}

NoResponse == [ok |-> FALSE, body |-> [kind |-> "none", incidents |-> <<>>]]
Responses == {NoResponse} \cup [ok : {TRUE}, body : Bodies]

SyntaxErr == [name |-> "SyntaxError", message |-> <<"Unexpected", "token">>]
NullDerefErr == [name |-> "TypeError", message |-> <<"Cannot", "read", "properties", "of", "null">>]

NoStatusResult == [status |-> "none", message |-> "", affected |-> 0]

\* official-status/gemini.ts:41-64, toStatus
toStatus(incidents) ==
    IF \E k \in 1..Len(incidents) :
          /\ \/ incidents[k].impact = "SERVICE_OUTAGE"
             \/ incidents[k].impact # "SERVICE_DISRUPTION" /\ incidents[k].severity = "high"
          /\ \A m \in 1..(k - 1) :
                \/ incidents[m].impact = "SERVICE_DISRUPTION"
                \/ incidents[m].impact = "" /\ incidents[m].severity # "high"
    THEN "down" ELSE "degraded"

\* official-status/gemini.ts:109-128, the result for a parsed body; the
\* filters dereference every element, so a null element throws
statusOfBody(body) ==
    LET incidents == IF body.kind = "array" THEN body.incidents ELSE <<>>
        active == SelectSeq(incidents, LAMBDA i : i.gemini /\ i.active)
    IN  IF active = <<>>
        THEN [status |-> "operational", message |-> "ALL_OPERATIONAL", affected |-> 0]
        ELSE [status |-> toStatus(active), message |-> "INCIDENTS", affected |-> 1]

\* what reading the body throws, if anything
bodyError(body) ==
    IF body.kind = "malformed" THEN SyntaxErr
    ELSE IF \E k \in 1..Len(body.incidents) : body.incidents[k].isNull THEN NullDerefErr
    ELSE NoError

statusTryCoversFetchOnly(point) == point = "fetch"

\* official-status/gemini.ts:90-128, the statements inside the try block
statusTryCovers(point) == point \in {"fetch", "json", "filter"}

\* official-status/gemini.ts:129-147, the catch block
statusCatch(error) ==
    IF error.name = "AbortError"
    THEN [status |-> "unknown", message |-> "TIMEOUT", affected |-> 0]
    ELSE [status |-> "unknown", message |-> "FAILED", affected |-> 0]

\* an error is thrown at a point of checkGeminiStatus
StatusThrown(point, error) ==
    /\ statusError' = error
    /\ IF statusTryCovers(point)
       THEN statusPc' = "done" /\ statusResult' = statusCatch(error)
       ELSE statusPc' = "rejected" /\ UNCHANGED statusResult

\* official-status/gemini.ts:87-99, up to `await fetch`
StatusStart ==
    /\ statusPc = "idle"
    /\ statusPc' = "fetch"
    /\ statusTimer' = TRUE
    /\ UNCHANGED <<statusResponse, statusError, statusResult>>

\* official-status/gemini.ts:92, the abort timer fires. While fetch is
\* pending controller.abort() rejects it with an AbortError; after a network
\* failure, which leaves the timer armed (clearTimeout at line 101 is not
\* reached), the call has returned and the abort finds nothing to cancel
StatusDeadline ==
    /\ statusTimer
    /\ statusTimer' = FALSE
    /\ IF statusPc = "fetch"
       THEN StatusThrown("fetch", AbortErr)
       ELSE UNCHANGED <<statusPc, statusError, statusResult>>
    /\ UNCHANGED statusResponse

\* official-status/gemini.ts:93-108, fetch settles: a network failure goes
\* to the catch block, a non-2xx response returns unknown, a 2xx response
\* is read
StatusFetchSettle ==
    /\ statusPc = "fetch"
    /\ \/ /\ StatusThrown("fetch", TransportErr)
          /\ UNCHANGED <<statusTimer, statusResponse>>
       \/ \E r \in Responses :
             /\ statusResponse' = r
             /\ statusTimer' = FALSE
             /\ IF ~r.ok
                THEN /\ statusPc' = "done"
                     /\ statusResult' = [status |-> "unknown", message |-> "HTTP",
                                         affected |-> 0]
                ELSE statusPc' = "body" /\ UNCHANGED statusResult
             /\ UNCHANGED statusError

\* official-status/gemini.ts:109-128, response.json() settles and the
\* incidents are filtered
StatusBodySettle ==
    /\ statusPc = "body"
    /\ LET body == statusResponse.body IN
       IF bodyError(body) # NoError
       THEN StatusThrown(IF body.kind = "malformed" THEN "json" ELSE "filter",
                         bodyError(body))
       ELSE /\ statusPc' = "done"
            /\ statusResult' = statusOfBody(body)
            /\ UNCHANGED statusError
    /\ UNCHANGED <<statusTimer, statusResponse>>

StatusIdle ==
    /\ statusPc = "idle"
    /\ statusTimer = FALSE
    /\ statusResponse = NoResponse
    /\ statusError = NoError
    /\ statusResult = NoStatusResult

StatusNext == StatusStart \/ StatusDeadline \/ StatusFetchSettle \/ StatusBodySettle

\* C24: checkGeminiStatus never throws or rejects; a non-2xx response, a
\* network failure, a timeout abort and a malformed JSON body each yield a
\* result with status unknown.
C24_StatusNeverThrows ==
    /\ statusPc # "rejected"
    /\ statusPc = "done" =>
          /\ statusResult.status \in {"unknown", "operational", "degraded", "down"}
          /\ (statusError # NoError \/ ~statusResponse.ok) =>
                statusResult.status = "unknown"
          /\ statusError = AbortErr => statusResult.message = "TIMEOUT"
          /\ (statusError = NoError /\ statusResponse.ok) =>
                statusResult.status # "unknown"
    /\ statusPc # "done" => statusResult = NoStatusResult

\* C24 witness: the body of a 2xx response was not JSON and the call returned
\* unknown
C24_Witness ==
    /\ statusPc = "done"
    /\ statusResponse.ok
    /\ statusResponse.body.kind = "malformed"
    /\ statusError = SyntaxErr
    /\ statusResult.status = "unknown"

\* ------------------------------------------------------------ C26
\* C26: every cancellation timer a check armed is cleared on every exit path,
\* so no deadline timer is armed once the check has returned its result.
C26_NoTimerAfterReturn ==
    \A i \in Providers : chk[i].pc = "done" => chk[i].timers = 0

\* ------------------------------------------------------------ C27
\* what a check does by itself once it was started: its deadline timer fires
\* while a call is in flight, its ping settles (endpoint-ping resolves with
\* null on any failure), and its continuation after the awaits runs
CheckProgress(i) ==
    \/ DeadlineFire(i)
    \/ PingSettle(i)
    \/ ReplyFinish(i)
    \/ CatchFinish(i)

\* C27: when the deadline timer of a check fires while its transport call is
\* in flight (awaiting fetch, reading the event stream or reading a body), that
\* call ends in the same step: the check is in its catch block, holds the
\* call's return value, or has started the generateContent attempt; and the
\* check then goes on to return a CheckResult.
C27_DeadlineEndsCall ==
    /\ [][\A i \in Providers :
            (chk'[i].aborted /\ ~chk[i].aborted) =>
               \/ chk'[i].pc \in {"catch", "reply"}
               \/ chk[i].pc = "req1" /\ chk'[i].pc = "req2"
                                     /\ chk'[i].phase = "connect"]_vars
    /\ \A i \in Providers :
          chk[i].aborted ~> (chk[i].pc = "done" /\ chk[i].result.status \in Statuses)

\* a Gemini check whose event stream was open when the deadline fired has
\* returned its result, and so has an aborted check of the other adapter
C27_Witness ==
    \E i, j \in Providers :
        /\ chk[i].kind = "gemini" /\ chk[i].aborted /\ chk[i].pc = "done"
        /\ chk[i].error = AbortErr /\ chk[i].requests = 1
        /\ chk[j].kind = "aisdk" /\ chk[j].aborted /\ chk[j].pc = "done"

\* ------------------------------------------------------------ C28
\* C28: once a Gemini attempt received a non-2xx response, the attempt throws
\* an error whose statusCode is the response status and whose responseBody is
\* the raw body text ("" when the body could not be read); the body is never
\* taken as the reply nor validated, no further request is made, and the
\* check ends with status error.
C28_NonOkResponseIsError ==
    \A i \in Providers :
        LET c == chk[i] IN
        (c.kind = "gemini" /\ c.httpStatus \in HttpStatuses) =>
            \/ /\ c.pc \in {"req1", "req2"}
               /\ c.phase = "errbody"
               /\ c.error = NoError
            \/ /\ c.pc \in {"catch", "done"}
               /\ c.error.name = "Error"
               /\ c.error.statusCode = c.httpStatus
               /\ c.error.responseBody = (IF c.body.ok THEN c.body.text ELSE <<>>)
               /\ c.text = <<>>
               /\ c.validated = 0
               /\ c.requests = Len(c.inputs)
               /\ c.pc = "done" => c.result.status = "error"

\* a 429 response whose body reads like the right answer ended the check with
\* status error, and the body is on the error
C28_Witness ==
    \E i \in Providers :
        /\ chk[i].kind = "gemini" /\ chk[i].pc = "done"
        /\ chk[i].httpStatus = 429
        /\ chk[i].body = BodyRead(TRUE, <<"result:", ToDecimal(chk[i].a + chk[i].b)>>)
        /\ chk[i].error.responseBody = chk[i].body.text
        /\ chk[i].result.status = "error"
        /\ ~chk[i].aborted

\* ------------------------------------------------------------ C29
\* C29: a check generates exactly one challenge; every request of the check,
\* the Gemini generateContent retry included, carries that challenge's
\* prompt, and a reply that is validated, from whichever attempt, is judged
\* against that challenge's expected answer.
C29_OneChallengePerCheck ==
    \A i \in Providers :
        LET c == chk[i]
            expected == ToDecimal(c.a + c.b)
        IN  c.pc # "idle" =>
            /\ c.challenges = 1
            /\ Len(c.prompts) = c.requests
            /\ \A k \in 1..Len(c.prompts) :
                  c.prompts[k] = <<ToDecimal(c.a), "+", ToDecimal(c.b), "=", "?">>
            /\ (c.pc = "done" /\ c.validated = 1) =>
                  /\ c.result.status = "validation_failed" <=>
                        expected \notin SeqRange(c.text)
                  /\ c.result.status = "validation_failed" =>
                        c.result.message.expected = expected

\* the generateContent attempt of a Gemini check was sent and its reply, a
\* wrong number, failed validation against the challenge's answer
C29_Witness ==
    \E i \in Providers :
        /\ chk[i].kind = "gemini" /\ chk[i].pc = "done"
        /\ Len(chk[i].prompts) = 2
        /\ chk[i].prompts[2] = chk[i].prompts[1]
        /\ chk[i].validated = 1
        /\ chk[i].result.status = "validation_failed"

\* ------------------------------------------------------------ C25
\* the collaborators' settlements: runProviderChecks() and appendHistory()
\* resolving or rejecting
PollerSettle ==
    \E id \in TickIds :
        \/ LoadConfigs(id)
        \/ CheckSettle(id)
        \/ ChecksResolve(id)
        \/ ChecksReject(id)
        \/ AppendResolve(id)
        \/ AppendReject(id)

\* C25: provided every provider check and the history append settle, the
\* running flag, once set, is eventually cleared, whatever the outcome of the
\* tick; it is cleared only by the in-flight tick finishing, and an interval
\* fire that finds it clear runs a tick. So every tick that starts finishes,
\* and a skipped fire is followed by a fire that is executed.
C25_LoopNeverStalls ==
    /\ running ~> ~running
    /\ [][(running /\ ~running') =>
              \E id \in TickIds : InFlight(id) /\ tk'[id].pc = "done"]_vars
    /\ [][(fires' = fires + 1 /\ ~running) =>
              (tk'[invocations'].pc = "config" /\ running')]_vars

\* a tick whose provider checks rejected has ended, the invocation after it
\* was skipped or ran, and a later interval fire ran a tick to its end
C25_Witness ==
    \E i, j, k \in TickIds :
        /\ i < j /\ j < k
        /\ tk[i].pc = "done" /\ tk[i].outcome = "checksThrew"
        /\ tk[j].pc = "skipped"
        /\ tk[k].pc = "done" /\ tk[k].outcome = "appended"
        /\ ~running

\* =========================================================================
\*                     GEMINI EVENT-STREAM LINE FRAMING
\* =========================================================================
\* a line is a sequence of tokens: a field prefix, JSON punctuation, a text
\* or white space. The lines explored: blank and white space only, data:
\* lines with a whole object, the two halves of an object, an opening brace
\* alone (with the closing half: the object {}), the sentinel and padding,
\* the four ignored prefixes, bare JSON lines, the empty array among them,
\* and a line of none of these kinds
FrameLines ==
    {<<>>, <<" ">>,
     <<"data:", "{", "a", "}">>, <<"data:", "{", "a">>, <<"data:", "}">>,
     <<"data:", "{">>, <<"[", "]">>,
     <<"data:", "[DONE]">>, <<"data:">>,
     <<" ", "data:", " ", "{", "b", "}", " ">>,
     <<"event:", "message">>, <<"id:", "1">>, <<"retry:", "5">>, <<":", "ping">>,
     <<"{", "b", "}">>, <<"[", "{", "b", "}", "]">>, <<"[DONE]">>, <<"null">>,
     <<"junk">>}

LineBodies == UNION {[1..n -> FrameLines] : n \in 0..MaxLines}

\* String.prototype.trim() on a token sequence: white space, line feeds and
\* carriage returns are removed at both ends
RECURSIVE TrimTokens(_)
TrimTokens(s) ==
    IF s = <<>> THEN s
    ELSE IF Head(s) \in {" ", "LF", "CR"} THEN TrimTokens(Tail(s))
    ELSE IF s[Len(s)] \in {" ", "LF", "CR"}
    THEN TrimTokens(SubSeq(s, 1, Len(s) - 1))
    ELSE s

\* trimmed.startsWith("{") || trimmed.startsWith("[") || trimmed === "null"
\* (part_002:279): the sentinel [DONE] starts with a bracket
IsBareJson(trimmed) ==
    Head(trimmed) \in {"{", "[", "[DONE]"} \/ trimmed = <<"null">>

\* eventDataLines.join("\n"), the line feed written as the token "LF"
RECURSIVE JoinLines(_)
JoinLines(ls) ==
    IF ls = <<>> THEN <<>>
    ELSE IF Len(ls) = 1 THEN ls[1]
    ELSE ls[1] \o <<"LF">> \o JoinLines(Tail(ls))

\* JSON.parse on a token sequence with the white space taken out: the literal
\* null, a number, an object with no member ({}), an object whose one member
\* is the candidate text t, an array with no element ([]) or with one
\* element; anything else is a SyntaxError. The tokens have no comma, so no
\* array of these strings has two elements
RECURSIVE parseJson(_)
parseJson(json) ==
    LET malformed == [kind |-> "malformed", parts |-> <<>>]
        inner == parseJson(SubSeq(json, 2, Len(json) - 1))
    IN  IF json = <<"null">> THEN [kind |-> "null", parts |-> <<>>]
        ELSE IF json \in {<<"1">>, <<"5">>} THEN [kind |-> "number", parts |-> <<>>]
        ELSE IF json = <<"{", "}">> THEN [kind |-> "object", parts |-> <<>>]
        ELSE IF Len(json) = 3 /\ json[1] = "{" /\ json[2] \in {"a", "b"}
                /\ json[3] = "}"
        THEN [kind |-> "object", parts |-> <<<<json[2]>>>>]
        ELSE IF json = <<"[", "]">>
        THEN [kind |-> "array", parts |-> <<>>, items |-> <<>>]
        ELSE IF Len(json) > 2 /\ json[1] = "[" /\ json[Len(json)] = "]"
        THEN IF inner.kind = "malformed" THEN malformed
             ELSE [kind |-> "array", parts |-> <<>>, items |-> <<inner>>]
        ELSE malformed

\* part_002:227-235, what handlePayload makes of a payload string: nothing
\* for a blank string or the sentinel, else the JSON.parse result, or a
\* failure; JSON.parse skips white space between tokens
parsePayload(payload) ==
    LET trimmed == TrimTokens(payload)
        json == SelectSeq(trimmed, LAMBDA t : t \notin {" ", "LF", "CR"})
    IN  IF trimmed = <<>> THEN [kind |-> "blank", parts |-> <<>>]
        ELSE IF trimmed = <<"[DONE]">> THEN [kind |-> "done", parts |-> <<>>]
        ELSE parseJson(json)

\* the state of the closures of readEventStreamText (part_002:219-224)
FrameState ==
    [pending |-> eventDataLines, calls |-> flushed, text |-> parserText,
     last |-> lastPayload, seen |-> handled]

\* a handlePayload that records whatever it was given as the last payload
handlePayloadKeepsUnparsed(st, payload) ==
    LET parsed == parsePayload(payload) IN
    [st EXCEPT !.calls = Append(@, payload),
               !.text = handlePayloadText(@, parsed),
               !.last = parsed,
               !.seen = Append(@, parsed)]

\* part_002:226-245, handlePayload(payload)
handlePayload(st, payload) ==
    LET parsed == parsePayload(payload) IN
    [st EXCEPT !.calls = Append(@, payload),
               !.text = handlePayloadText(@, parsed),
               !.last = IF Parsed(parsed) THEN parsed ELSE @,
               !.seen = Append(@, parsed)]

\* part_002:247-253, flushEvent()
flushEvent(st) ==
    IF st.pending = <<>> THEN st
    ELSE [handlePayload(st, JoinLines(st.pending)) EXCEPT !.pending = <<>>]

\* the ignored prefixes taken as event boundaries
handleLineControlFlushes(st, rawLine) ==
    LET trimmed == TrimTokens(rawLine) IN
    IF trimmed = <<>> THEN flushEvent(st)
    ELSE IF Head(trimmed) = "data:"
    THEN [st EXCEPT !.pending = Append(@, TrimTokens(Tail(trimmed)))]
    ELSE IF Head(trimmed) \in {"event:", "id:", "retry:", ":"} THEN flushEvent(st)
    ELSE IF IsBareJson(trimmed)
    THEN handlePayload(flushEvent(st), trimmed)
    ELSE st

\* part_002:255-283 (and 176-204), handleLine(rawLine)
handleLine(st, rawLine) ==
    LET trimmed == TrimTokens(rawLine) IN
    IF trimmed = <<>> THEN flushEvent(st)
    ELSE IF Head(trimmed) = "data:"
    THEN [st EXCEPT !.pending = Append(@, TrimTokens(Tail(trimmed)))]
    ELSE IF Head(trimmed) \in {"event:", "id:", "retry:", ":"} THEN st
    ELSE IF IsBareJson(trimmed)
    THEN handlePayload(flushEvent(st), trimmed)
    ELSE st

SetFrame(st) ==
    /\ eventDataLines' = st.pending
    /\ flushed' = st.calls
    /\ parserText' = st.text
    /\ lastPayload' = st.last
    /\ handled' = st.seen

\* part_002:285-303, the next line of the body is handled
HandleLine ==
    /\ lines # <<>>
    /\ returned.null
    /\ SetFrame(handleLine(FrameState, Head(lines)))
    /\ lines' = Tail(lines)
    /\ UNCHANGED returned

\* part_002:303-305, the body has ended: the pending event is flushed and
\* { text, lastPayload } returned
FrameEnd ==
    /\ lines = <<>>
    /\ returned.null
    /\ LET st == flushEvent(FrameState) IN
          /\ SetFrame(st)
          /\ returned' = IF ~st.text.null /\ ~IsBlank(st.text.s)
                         THEN SomeText(st.text.s) ELSE SomeText(<<>>)
    /\ UNCHANGED lines

FrameIdle ==
    /\ lines = <<>>
    /\ eventDataLines = <<>>
    /\ flushed = <<>>

FrameNext == HandleLine \/ FrameEnd

\* =========================================================================
\*                     CHUNKED READING OF THE EVENT STREAM
\* =========================================================================
\* a body is a sequence of tokens, carriage returns and line feeds among them
ChunkAlphabet == {"data:", "{", "a", "}", "CR", "LF"}
ChunkBodies == UNION {[1..n -> ChunkAlphabet] : n \in 0..MaxBodyLen}

\* s.split(/\r?\n/): the pieces between line feeds, a carriage return right
\* before a line feed belonging to the separator
RECURSIVE SplitLines(_)
SplitLines(s) ==
    IF \A k \in 1..Len(s) : s[k] # "LF" THEN <<s>>
    ELSE LET i == CHOOSE k \in 1..Len(s) :
                     s[k] = "LF" /\ \A j \in 1..(k - 1) : s[j] # "LF"
             e == IF i > 1 /\ s[i - 1] = "CR" THEN i - 2 ELSE i - 1
         IN  <<SubSeq(s, 1, e)>> \o SplitLines(SubSeq(s, i + 1, Len(s)))

\* for (const line of lines) handleLine(line)
RECURSIVE handleLines(_, _)
handleLines(st, ls) ==
    IF ls = <<>> THEN st ELSE handleLines(handleLine(st, Head(ls)), Tail(ls))

\* part_002:134-208, parseEventStreamLikeText(rawText)
parseEventStreamLikeText(rawText) ==
    flushEvent(handleLines([pending |-> <<>>, calls |-> <<>>, text |-> NullText,
                            last |-> NoPayload, seen |-> <<>>],
                           SplitLines(rawText)))

\* a reader that starts every chunk on a fresh line
bufferDropped(pieces) == <<>>

\* part_002:292-293, buffer = lines.pop() ?? ""
bufferKept(pieces) == pieces[Len(pieces)]

\* part_002:286-297, reader.read() delivers the next chunk: the complete lines
\* of buffer + chunk are handled and the rest is kept
ReadChunk ==
    /\ unread # <<>>
    /\ returned.null
    /\ \E n \in 1..Len(unread) :
          LET pieces == SplitLines(buffer \o SubSeq(unread, 1, n)) IN
          /\ SetFrame(handleLines(FrameState, SubSeq(pieces, 1, Len(pieces) - 1)))
          /\ buffer' = bufferKept(pieces)
          /\ unread' = SubSeq(unread, n + 1, Len(unread))
    /\ UNCHANGED <<rawBody, returned>>

\* part_002:287-289 and 299-305, the stream is done: the rest of the buffer is
\* handled, the pending event flushed and { text, lastPayload } returned
ReadDone ==
    /\ unread = <<>>
    /\ returned.null
    /\ LET st == flushEvent(handleLines(FrameState, SplitLines(buffer))) IN
          /\ SetFrame(st)
          /\ returned' = IF ~st.text.null /\ ~IsBlank(st.text.s)
                         THEN SomeText(st.text.s) ELSE SomeText(<<>>)
    /\ UNCHANGED <<rawBody, unread, buffer>>

ChunkIdle ==
    /\ rawBody = <<>>
    /\ unread = <<>>
    /\ buffer = <<>>

ChunkNext == ReadChunk \/ ReadDone

\* ------------------------------------------------------------ C32
\* C32: however the body is cut into chunks, readEventStreamText returns the
\* text and lastPayload that parseEventStreamLikeText gives for the whole
\* body, having handed the same payloads to handlePayload.
C32_ChunkingInvisible ==
    ~returned.null =>
        LET whole == parseEventStreamLikeText(rawBody) IN
        /\ parserText = whole.text
        /\ lastPayload = whole.last
        /\ flushed = whole.calls

\* a bare JSON line ended by CR LF is being read with the chunk boundary
\* between the carriage return and the line feed: the line is still in the
\* buffer and nothing was handled yet
C32_Witness ==
    /\ returned.null
    /\ rawBody = <<"{", "a", "}", "CR", "LF">>
    /\ unread = <<"LF">>
    /\ buffer = <<"{", "a", "}", "CR">>
    /\ flushed = <<>>

\* ------------------------------------------------------------ C30
\* the pending event as one payload string, if there is a pending event
C30_PendingPayload ==
    IF eventDataLines = <<>> THEN <<>> ELSE <<JoinLines(eventDataLines)>>

\* what the handling of one line, or the end of the body, does to the pending
\* event and to the payloads handed to handlePayload
C30_Step ==
    IF lines # <<>> /\ lines' = Tail(lines)
    THEN LET l == TrimTokens(Head(lines)) IN
         IF l = <<>>
         THEN /\ flushed' = flushed \o C30_PendingPayload
              /\ eventDataLines' = <<>>
         ELSE IF Head(l) = "data:"
         THEN /\ eventDataLines' = Append(eventDataLines, TrimTokens(Tail(l)))
              /\ UNCHANGED <<flushed, parserText, lastPayload>>
         ELSE IF Head(l) \in {"event:", "id:", "retry:", ":"}
         THEN UNCHANGED <<eventDataLines, flushed, parserText, lastPayload>>
         ELSE IF Head(l) \in {"{", "[", "[DONE]"} \/ l = <<"null">>
         THEN /\ flushed' = flushed \o C30_PendingPayload \o <<l>>
              /\ eventDataLines' = <<>>
         ELSE UNCHANGED <<eventDataLines, flushed, parserText, lastPayload>>
    ELSE IF returned.null /\ ~returned'.null
    THEN /\ flushed' = flushed \o C30_PendingPayload
         /\ eventDataLines' = <<>>
    ELSE TRUE

\* C30: consecutive data: lines accumulate into one pending event, which is
\* handed to handlePayload as one string joined with line feeds only when a
\* blank line, a bare JSON line or the end of the body flushes it; event:,
\* id:, retry: and comment lines change neither the pending event nor the
\* text; a bare line starting with { or [ flushes the pending event and is
\* then handled as a payload of its own; an event pending at the end of the
\* body is flushed. Every string so handed over is parsed as it stands.
C30_Framing ==
    /\ [][C30_Step]_vars
    /\ [](Len(handled) = Len(flushed)
          /\ \A k \in 1..Len(flushed) : handled[k] = parsePayload(flushed[k]))

\* an object sent as two data: lines and a bare JSON line after them, with
\* no blank line in the body, were handled as two payloads and merged
C30_Witness ==
    /\ lines = <<>>
    /\ ~returned.null
    /\ flushed = << <<"{", "a", "LF", "}">>, <<"{", "b", "}">> >>
    /\ parserText = SomeText(<<"a", "b">>)
    /\ eventDataLines = <<>>

\* ------------------------------------------------------------ C31
\* the payloads that are JSON values other than null
C31_Kept(ps) ==
    SelectSeq(ps, LAMBDA e : e.kind \notin {"blank", "done", "null", "malformed"})

\* the text after the given payloads, each merged in turn
RECURSIVE C31_TextOf(_)
C31_TextOf(ps) ==
    IF ps = <<>> THEN NullText
    ELSE handlePayloadText(C31_TextOf(SubSeq(ps, 1, Len(ps) - 1)), ps[Len(ps)])

\* C31: a flushed payload that is blank, the sentinel [DONE], the literal
\* null or not JSON leaves the text and lastPayload as they were and does not
\* end the parsing: the text and lastPayload are those of the other payloads
\* alone, the payloads after such a one included, and the parser returns
\* only when every line was handled.
C31_SkippedPayloadsLeaveNoTrace ==
    LET kept == C31_Kept(handled) IN
    /\ parserText = C31_TextOf(kept)
    /\ lastPayload = IF kept = <<>> THEN NoPayload ELSE kept[Len(kept)]
    /\ ~returned.null => lines = <<>> /\ eventDataLines = <<>>

\* a [DONE] event, a null line and a line that is not JSON were followed by
\* an object, whose text was taken
C31_Witness ==
    /\ ~returned.null
    /\ Len(handled) = 3
    /\ handled[1].kind = "done"
    /\ handled[2].kind \in {"null", "malformed"}
    /\ handled[3].kind = "object"
    /\ lastPayload = handled[3]
    /\ parserText = SomeText(<<"b">>)

\* =========================================================================
\*                          GEMINI REQUEST URL
\* =========================================================================
\* an endpoint is a sequence of pieces: a host, a slash, the models path, the
\* two action suffixes, a question mark, a query text and white space
UrlAlphabet == {"h", "/", "/v1beta/models", ":streamGenerateContent",
                ":generateContent", "?", "a", " "}
ResolveEndpoints == UNION {[1..n -> UrlAlphabet] : n \in 0..MaxUrlLen}

\* s.includes(p)
Includes(s, p) == \E k \in 1..Len(s) : s[k] = p

\* s.split("?"): the pieces between question marks
RECURSIVE SplitAtQuery(_)
SplitAtQuery(s) ==
    IF ~Includes(s, "?") THEN <<s>>
    ELSE <<Before(s, "?")>> \o SplitAtQuery(SubSeq(s, Len(Before(s, "?")) + 2, Len(s)))

\* base.replace(/\/+$/, "")
RECURSIVE StripSlashes(_)
StripSlashes(s) ==
    IF s # <<>> /\ s[Len(s)] = "/" THEN StripSlashes(SubSeq(s, 1, Len(s) - 1)) ELSE s

\* s.replace(p, q): the first occurrence replaced
ReplaceFirst(s, p, q) ==
    IF ~Includes(s, p) THEN s
    ELSE Before(s, p) \o <<q>> \o SubSeq(s, Len(Before(s, p)) + 2, Len(s))

\* part_002:38-66, resolveGeminiUrlForAction(endpoint, model, action), the
\* action given with its colon
resolveGeminiUrlForAction(endpoint, model, action) ==
    LET trimmed == TrimTokens(endpoint)
        split == SplitAtQuery(trimmed)
        base == split[1]
        query == IF Len(split) >= 2 THEN split[2] ELSE <<>>
        normalizedBase == StripSlashes(base)
        withQuery(nextBase) ==
            IF query # <<>> THEN nextBase \o <<"?">> \o query ELSE nextBase
    IN  IF action = ":streamGenerateContent"
           /\ Includes(trimmed, ":streamGenerateContent")
        THEN trimmed
        ELSE IF action # ":streamGenerateContent"
                /\ Includes(trimmed, ":generateContent")
        THEN trimmed
        ELSE IF action # ":streamGenerateContent"
                /\ Includes(trimmed, ":streamGenerateContent")
        THEN withQuery(ReplaceFirst(base, ":streamGenerateContent",
                                    ":generateContent"))
        ELSE IF normalizedBase # <<>>
                /\ normalizedBase[Len(normalizedBase)] = "/v1beta/models"
        THEN withQuery(normalizedBase \o <<"/">> \o model \o <<action>>)
        ELSE trimmed

NoUrls == [stream |-> <<>>, generate |-> <<>>]

\* part_002:324 in the attempt of part_002:450-458
ResolveStreamUrl ==
    /\ callPc = "called"
    /\ callPc' = "stream"
    /\ callResult' = [callResult EXCEPT !.stream =
          resolveGeminiUrlForAction(callArgs.endpoint, callArgs.model,
                                    ":streamGenerateContent")]
    /\ UNCHANGED callArgs

\* part_002:324 in the attempt of part_002:464-472
ResolveRetryUrl ==
    /\ callPc = "stream"
    /\ callPc' = "both"
    /\ callResult' = [callResult EXCEPT !.generate =
          resolveGeminiUrlForAction(callArgs.endpoint, callArgs.model,
                                    ":generateContent")]
    /\ UNCHANGED callArgs

CallIdle ==
    /\ callPc = "idle"
    /\ callArgs = <<>>
    /\ callResult = <<>>

ResolveNext == ResolveStreamUrl \/ ResolveRetryUrl

\* ------------------------------------------------------------ C33
\* the url with every action suffix written as generateContent
C33_ActionErased(url) ==
    [k \in 1..Len(url) |->
        IF url[k] = ":streamGenerateContent" THEN ":generateContent" ELSE url[k]]

\* the url before its first question mark
C33_Base(url) == Before(url, "?")

\* the query string of the url: what follows its first question mark
C33_Query(url) == SubSeq(url, Len(Before(url, "?")) + 2, Len(url))

\* C33: for the streaming action an endpoint that holds
\* :streamGenerateContent is used as it is, and one whose path, without query
\* and trailing slashes, ends in /v1beta/models becomes
\* <base>/<model>:streamGenerateContent with the endpoint's query string; the
\* url of the generateContent retry has the base, model and query of the
\* stream url and differs from it in the action name only.
C33_ResolvedUrls ==
    callPc = "both" =>
        LET trimmed == TrimTokens(callArgs.endpoint)
            path == StripSlashes(C33_Base(trimmed))
        IN  /\ Includes(trimmed, ":streamGenerateContent") =>
                  callResult.stream = trimmed
            /\ (~Includes(trimmed, ":streamGenerateContent") /\ path # <<>>
                /\ path[Len(path)] = "/v1beta/models") =>
                  /\ C33_Base(callResult.stream) =
                        path \o <<"/">> \o callArgs.model
                             \o <<":streamGenerateContent">>
                  /\ C33_Query(callResult.stream) = C33_Query(trimmed)
            /\ C33_ActionErased(C33_Base(callResult.generate)) =
                  C33_ActionErased(C33_Base(callResult.stream))
            /\ C33_Query(callResult.generate) = C33_Query(callResult.stream)

\* the same for endpoints with at most one question mark and no
\* :generateContent in them
C33_PlainEndpoints ==
    (/\ Len(SplitAtQuery(callArgs.endpoint)) <= 2
     /\ ~Includes(callArgs.endpoint, ":generateContent")) => C33_ResolvedUrls

\* =========================================================================
\*                     GEMINI TEXT EXTRACTION (JSON PAYLOADS)
\* =========================================================================
\* extractGeminiText over payloads with any number of candidates and parts of
\* any type; extractGeminiText above is its restriction to one candidate with
\* string parts.
\*
\* the `text` of a part: a string, a number, a boolean or anything else
\* (null, an object, no text field)
PartValues ==
    {[type |-> "string", s |-> t, n |-> 0, b |-> FALSE] :
        t \in {<<>>, <<"a">>, <<" ">>}}
    \cup {[type |-> "number", s |-> <<>>, n |-> k, b |-> FALSE] : k \in {0, 10}}
    \cup {[type |-> "boolean", s |-> <<>>, n |-> 0, b |-> x] : x \in BOOLEAN}
    \cup {[type |-> "other", s |-> <<>>, n |-> 0, b |-> FALSE]}

\* a candidate: content.parts is an array, or is missing or something else
Candidates ==
    {[hasParts |-> FALSE, parts |-> <<>>]}
    \cup {[hasParts |-> TRUE, parts |-> ps] :
            ps \in UNION {[1..n -> PartValues] : n \in 0..MaxParts}}

JsonNull == [kind |-> "null"]

\* an object payload: candidates is an array, or is missing or something else
JsonObjects ==
    {[kind |-> "object", hasCandidates |-> FALSE, candidates |-> <<>>]}
    \cup {[kind |-> "object", hasCandidates |-> TRUE, candidates |-> cs] :
            cs \in UNION {[1..n -> Candidates] : n \in 0..MaxParts}}

\* the elements of an array payload: null, an object with at most one
\* candidate of at most one part, or an array of one such object
ArrayItems ==
    LET small == {o \in JsonObjects :
                     /\ Len(o.candidates) <= 1
                     /\ \A k \in 1..Len(o.candidates) : Len(o.candidates[k].parts) <= 1}
    IN  {JsonNull} \cup small
        \cup {[kind |-> "array", items |-> <<o>>] :
                 o \in {x \in small : x.hasCandidates /\ x.candidates # <<>>
                                      /\ x.candidates[1].parts # <<>>
                                      /\ x.candidates[1].parts[1].type = "string"}}

JsonArrays ==
    {[kind |-> "array", items |-> its] :
        its \in UNION {[1..n -> ArrayItems] : n \in 0..MaxParts}}

JsonPayloads == {JsonNull} \cup JsonObjects \cup JsonArrays

\* String(value) of a non-negative integer
RECURSIVE StringOfNumber(_)
StringOfNumber(n) ==
    LET digit(d) == CASE d = 0 -> "0" [] d = 1 -> "1" [] d = 2 -> "2" [] d = 3 -> "3"
                      [] d = 4 -> "4" [] d = 5 -> "5" [] d = 6 -> "6" [] d = 7 -> "7"
                      [] d = 8 -> "8" [] d = 9 -> "9"
    IN  IF n < 10 THEN <<digit(n)>> ELSE StringOfNumber(n \div 10) \o <<digit(n % 10)>>

\* String(value) of a boolean
StringOfBoolean(b) == IF b THEN <<"t", "r", "u", "e">> ELSE <<"f", "a", "l", "s", "e">>

\* part_002:98-108, what a part is mapped to
partText(part) ==
    CASE part.type = "string" -> part.s
      [] part.type = "number" -> StringOfNumber(part.n)
      [] part.type = "boolean" -> StringOfBoolean(part.b)
      [] OTHER -> <<>>

\* part_002:92-116, the body of the loop for one candidate: the text it
\* returns, or null when the loop goes on
candidateText(candidate) ==
    IF ~candidate.hasParts THEN NullText
    ELSE LET mapped == [k \in 1..Len(candidate.parts) |-> partText(candidate.parts[k])]
             texts == SelectSeq(mapped, LAMBDA t : t # <<>>)
             combined == Join(texts)
         IN  IF Len(texts) > 0 /\ ~IsBlank(combined) THEN SomeText(combined)
             ELSE NullText

\* the loop stopped at its first candidate
scanCandidatesFirstOnly(candidates) ==
    IF candidates = <<>> THEN NullText ELSE candidateText(candidates[1])

\* part_002:91-116, for (const candidate of candidates)
RECURSIVE scanCandidates(_)
scanCandidates(candidates) ==
    IF candidates = <<>> THEN NullText
    ELSE IF ~candidateText(candidates[1]).null THEN candidateText(candidates[1])
    ELSE scanCandidates(Tail(candidates))

\* part_002:68-119 with the array branch 74-82 scanning from the end
RECURSIVE extractGeminiTextJson(_)

\* the array searched from its first element
scanItemsFromStart(items, i) ==
    LET hits == {k \in 1..i : ~extractGeminiTextJson(items[k]).null}
    IN  IF hits = {} THEN NullText
        ELSE extractGeminiTextJson(items[CHOOSE k \in hits : \A j \in hits : k <= j])

RECURSIVE scanItems(_, _)
scanItems(items, i) ==
    IF i = 0 THEN NullText
    ELSE LET extracted == extractGeminiTextJson(items[i])
         IN  IF ~extracted.null /\ extracted.s # <<>> /\ ~IsBlank(extracted.s)
             THEN extracted
             ELSE scanItems(items, i - 1)

extractGeminiTextJson(payload) ==
    IF payload.kind = "null" THEN NullText
    ELSE IF payload.kind = "array" THEN scanItems(payload.items, Len(payload.items))
    ELSE scanCandidates(IF payload.hasCandidates THEN payload.candidates ELSE <<>>)

\* one call extractGeminiText(payload)
ExtractCall ==
    /\ callPc = "called"
    /\ callPc' = "returned"
    /\ callResult' = extractGeminiTextJson(callArgs.payload)
    /\ UNCHANGED callArgs

ExtractNext == ExtractCall

\* ------------------------------------------------------------ C34
\* the concatenation of the parts of a candidate: strings as they are,
\* numbers and booleans as String writes them, anything else left out
RECURSIVE C34_Concat(_)
C34_Concat(parts) ==
    IF parts = <<>> THEN <<>>
    ELSE (CASE parts[1].type = "string" -> parts[1].s
            [] parts[1].type = "number" ->
                   IF parts[1].n = 0 THEN <<"0">> ELSE <<"1", "0">>
            [] parts[1].type = "boolean" ->
                   IF parts[1].b THEN <<"t", "r", "u", "e">>
                   ELSE <<"f", "a", "l", "s", "e">>
            [] OTHER -> <<>>) \o C34_Concat(Tail(parts))

\* C34: for an object payload extractGeminiText returns the concatenation of
\* the parts of the first candidate, in order, whose concatenation is not
\* blank; it returns null when candidates is missing or not an array or no
\* candidate has such text; it never returns a blank string.
C34_FirstCandidateWithText ==
    (callPc = "returned" /\ callArgs.payload.kind = "object") =>
        LET cs == callArgs.payload.candidates
            good == {k \in 1..Len(cs) :
                        cs[k].hasParts /\ ~IsBlank(C34_Concat(cs[k].parts))}
        IN  /\ callResult =
                  IF ~callArgs.payload.hasCandidates \/ good = {} THEN NullText
                  ELSE SomeText(C34_Concat(
                           cs[CHOOSE k \in good : \A j \in good : k <= j].parts))
            /\ ~callResult.null => ~IsBlank(callResult.s)

\* C34 witness: the first candidate has only a blank string and a part
\* without text, the second a number and a string, and the call returned
\* "10a"
C34_Witness ==
    /\ callPc = "returned"
    /\ callArgs.payload.kind = "object"
    /\ Len(callArgs.payload.candidates) = 2
    /\ callArgs.payload.candidates[1].hasParts
    /\ Len(callArgs.payload.candidates[1].parts) = 2
    /\ callArgs.payload.candidates[1].parts[1].type = "string"
    /\ callArgs.payload.candidates[1].parts[1].s = <<" ">>
    /\ callArgs.payload.candidates[1].parts[2].type = "other"
    /\ callArgs.payload.candidates[2].hasParts
    /\ Len(callArgs.payload.candidates[2].parts) = 2
    /\ callArgs.payload.candidates[2].parts[1].type = "number"
    /\ callArgs.payload.candidates[2].parts[1].n = 10
    /\ callArgs.payload.candidates[2].parts[2].type = "string"
    /\ callResult = SomeText(<<"1", "0", "a">>)

\* ------------------------------------------------------------ C39
\* the text of an object: the parts of its first candidate with text
C39_ObjectText(o) ==
    LET good == {k \in 1..Len(o.candidates) :
                    /\ o.candidates[k].hasParts
                    /\ ~IsBlank(C34_Concat(o.candidates[k].parts))}
    IN  IF ~o.hasCandidates \/ good = {} THEN NullText
        ELSE SomeText(C34_Concat(
                 o.candidates[CHOOSE k \in good : \A j \in good : k <= j].parts))

\* the text of an array element: none for null, that of the object, or for
\* an array of one object that of the object
C39_ElementText(item) ==
    IF item.kind = "null" THEN NullText
    ELSE IF item.kind = "array" THEN C39_ObjectText(item.items[1])
    ELSE C39_ObjectText(item)

\* C39: for an array payload extractGeminiText returns the text of the last
\* element that has text that is not blank, exactly as that element gives
\* it and with nothing of the other elements, and null when no element has
\* text.
C39_LastElementWithText ==
    (callPc = "returned" /\ callArgs.payload.kind = "array") =>
        LET items == callArgs.payload.items
            hits == {k \in 1..Len(items) : ~C39_ElementText(items[k]).null}
        IN  callResult =
                IF hits = {} THEN NullText
                ELSE C39_ElementText(items[CHOOSE k \in hits : \A j \in hits : j <= k])

\* C39 witness: an array of two objects, the first with the text "a" and the
\* second with the text "10"; the call returned "10"
C39_Witness ==
    /\ callPc = "returned"
    /\ callArgs.payload.kind = "array"
    /\ Len(callArgs.payload.items) = 2
    /\ C39_ElementText(callArgs.payload.items[1]) = SomeText(<<"a">>)
    /\ C39_ElementText(callArgs.payload.items[2]) = SomeText(<<"1", "0">>)
    /\ callResult = SomeText(<<"1", "0">>)

\* =========================================================================
\*                        REASONING-EFFORT DIRECTIVE
\* =========================================================================
\* a model string is a sequence of pieces: a name without a reasoning hint, a
\* hyphen, the name o1, the two directive marks, the level words (one of them
\* in upper case), a blank and a line break
ModelAlphabet == {"x", "-", "o1", "@", "#", "mini", "minimal", "low", "medium",
                  "high", "HIGH", " ", "LF"}
ModelStrings == UNION {[1..n -> ModelAlphabet] : n \in 0..MaxModelLen}

\* undefined
NoEffort == "none"

\* effortRaw.toLowerCase()
LowerLevel(tok) == IF tok = "HIGH" THEN "high" ELSE tok

\* ai-sdk-check.ts:108-114; undefined for a word that is not a key
EFFORT_ALIAS_MAP(level) ==
    CASE level \in {"mini", "minimal", "low"} -> "low"
      [] level = "medium" -> "medium"
      [] level = "high" -> "high"
      [] OTHER -> NoEffort

\* the pieces that end in a word character
WordFinal(tok) == tok \notin {"-", "@", "#", " ", "LF"}

\* ai-sdk-check.ts:126-132, REASONING_MODEL_HINTS.some(regex => regex.test(s)):
\* of the five patterns only /\bo[1-9]/i can match a string of ModelStrings,
\* at an o1 that does not follow a word character
matchesReasoningHint(s) ==
    \E k \in 1..Len(s) : s[k] = "o1" /\ (k = 1 \/ ~WordFinal(s[k - 1]))

\* ai-sdk-check.ts:167, trimmed.match(/^(.*?)[@#](mini|minimal|low|medium|high)$/i):
\* the string ends in a mark and a level word and no line break comes before
directiveMatch(trimmed) ==
    /\ Len(trimmed) >= 2
    /\ EFFORT_ALIAS_MAP(LowerLevel(trimmed[Len(trimmed)])) # NoEffort
    /\ trimmed[Len(trimmed) - 1] \in {"@", "#"}
    /\ ~Includes(SubSeq(trimmed, 1, Len(trimmed) - 2), "LF")

\* the name-pattern default looked at before the directive
parseModelDirectiveHintFirst(model) ==
    LET trimmed == TrimTokens(model)
        base == SubSeq(trimmed, 1, Len(trimmed) - 2)
    IN  IF trimmed = <<>> THEN [modelId |-> model, reasoningEffort |-> NoEffort]
        ELSE IF matchesReasoningHint(trimmed)
        THEN [modelId |-> trimmed, reasoningEffort |-> "medium"]
        ELSE IF directiveMatch(trimmed)
        THEN [modelId |-> IF TrimTokens(base) # <<>> THEN TrimTokens(base) ELSE trimmed,
              reasoningEffort |-> EFFORT_ALIAS_MAP(LowerLevel(trimmed[Len(trimmed)]))]
        ELSE [modelId |-> trimmed, reasoningEffort |-> NoEffort]

\* ai-sdk-check.ts:158-183
parseModelDirective(model) ==
    LET trimmed == TrimTokens(model)
        base == SubSeq(trimmed, 1, Len(trimmed) - 2)
    IN  IF trimmed = <<>> THEN [modelId |-> model, reasoningEffort |-> NoEffort]
        ELSE IF directiveMatch(trimmed)
        THEN [modelId |-> IF TrimTokens(base) # <<>> THEN TrimTokens(base) ELSE trimmed,
              reasoningEffort |-> EFFORT_ALIAS_MAP(LowerLevel(trimmed[Len(trimmed)]))]
        ELSE IF matchesReasoningHint(trimmed)
        THEN [modelId |-> trimmed, reasoningEffort |-> "medium"]
        ELSE [modelId |-> trimmed, reasoningEffort |-> NoEffort]

\* ai-sdk-check.ts:289 and the reasoningEffort of the value createModel
\* returns (321, 329, 345, 363)
createModelEffort(type, model) ==
    IF type = "openai" THEN parseModelDirective(model).reasoningEffort ELSE NoEffort

\* ai-sdk-check.ts:482-494; NoEffort stands for undefined
buildReasoningOptions(providerType, reasoningEffort) ==
    IF reasoningEffort = NoEffort \/ providerType # "openai" THEN NoEffort
    ELSE reasoningEffort

NoDirective == [modelId |-> <<>>, reasoningEffort |-> NoEffort,
                returned |-> NoEffort, providerOptions |-> NoEffort]

\* ai-sdk-check.ts:537, createModel(config)
CreateModelCall ==
    /\ callPc = "called"
    /\ callPc' = "model"
    /\ callResult' =
          [callResult EXCEPT
              !.modelId = parseModelDirective(callArgs.model).modelId,
              !.reasoningEffort = parseModelDirective(callArgs.model).reasoningEffort,
              !.returned = createModelEffort(callArgs.type, callArgs.model)]
    /\ UNCHANGED callArgs

\* ai-sdk-check.ts:540-547, the providerOptions of the streamText call
BuildOptionsCall ==
    /\ callPc = "model"
    /\ callPc' = "options"
    /\ callResult' =
          [callResult EXCEPT
              !.providerOptions = buildReasoningOptions(callArgs.type, callResult.returned)]
    /\ UNCHANGED callArgs

DirectiveNext == CreateModelCall \/ BuildOptionsCall

\* ------------------------------------------------------------ C35
\* the level word a trimmed model string ends in after a mark, in lower case
C35_Level(trimmed) == LowerLevel(trimmed[Len(trimmed)])

\* the trimmed model string ends in @level or #level
C35_HasSuffix(trimmed) ==
    /\ Len(trimmed) >= 2
    /\ trimmed[Len(trimmed) - 1] \in {"@", "#"}
    /\ C35_Level(trimmed) \in {"mini", "minimal", "low", "medium", "high"}

\* the effort a level stands for
C35_EffortOf(level) ==
    IF level = "high" THEN "high" ELSE IF level = "medium" THEN "medium" ELSE "low"

\* what does not depend on the shape of the text before the suffix: without
\* a suffix the name pattern decides, and the effort goes out as
\* providerOptions for type openai only
C35_DefaultAndAttachment ==
    LET trimmed == TrimTokens(callArgs.model)
    IN  /\ ~C35_HasSuffix(trimmed) =>
              callResult.reasoningEffort =
                  IF matchesReasoningHint(trimmed) THEN "medium" ELSE NoEffort
        /\ callResult.providerOptions =
              IF callArgs.type = "openai" THEN callResult.reasoningEffort
              ELSE NoEffort

\* C35 as stated: a model string ending in @level or #level, in any case,
\* yields the model id without the suffix and the effort of the level, also
\* when the name matches a reasoning pattern; without a directive a
\* reasoning name yields medium and any other name no effort; the effort is
\* attached to the call for type openai only.
C35_DirectiveAsStated ==
    callPc = "options" =>
        LET trimmed == TrimTokens(callArgs.model)
        IN  /\ C35_HasSuffix(trimmed) =>
                  /\ callResult.modelId =
                        TrimTokens(SubSeq(trimmed, 1, Len(trimmed) - 2))
                  /\ callResult.reasoningEffort = C35_EffortOf(C35_Level(trimmed))
            /\ C35_DefaultAndAttachment

\* C35: a model string ending in @level or #level, in any case, with a name
\* that is not blank and holds no line break before the suffix yields that
\* name, trimmed, as model id and the effort of the level, also when the name
\* matches a reasoning pattern; when only white space precedes the suffix the
\* effort is that of the level and the model id is the whole trimmed string;
\* when a line break precedes the suffix no directive is read and the name
\* pattern decides; without a directive a reasoning name yields medium and
\* any other name no effort; the effort is attached for type openai only.
C35_Directive ==
    callPc = "options" =>
        LET trimmed == TrimTokens(callArgs.model)
            name == SubSeq(trimmed, 1, Len(trimmed) - 2)
        IN  /\ (C35_HasSuffix(trimmed) /\ ~Includes(name, "LF")) =>
                  /\ callResult.modelId =
                        IF TrimTokens(name) # <<>> THEN TrimTokens(name) ELSE trimmed
                  /\ callResult.reasoningEffort = C35_EffortOf(C35_Level(trimmed))
            /\ (C35_HasSuffix(trimmed) /\ Includes(name, "LF")) =>
                  /\ callResult.modelId = trimmed
                  /\ callResult.reasoningEffort =
                        IF matchesReasoningHint(trimmed) THEN "medium" ELSE NoEffort
            /\ C35_DefaultAndAttachment

\* C35 witness: the model string "o1 @HIGH" of an openai configuration gave
\* the model id o1 and the effort high, which went out as providerOptions
C35_Witness ==
    /\ callPc = "options"
    /\ callArgs = [type |-> "openai", model |-> <<"o1", " ", "@", "HIGH">>]
    /\ callResult.modelId = <<"o1">>
    /\ callResult.providerOptions = "high"

\* =========================================================================
\*                     REQUEST BODY AND HEADER INJECTION
\* =========================================================================
\* a JSON object or a header record is a function from its keys to values;
\* the value tells where the entry comes from
\*
\* ai-sdk-check.ts:43
EXCLUDED_KEYS == {"model", "prompt", "messages", "abortSignal"}

\* config.metadata: any of these keys, or no metadata at all
MetadataKeys == EXCLUDED_KEYS \cup {"temperature", "stream"}
Metadatas == {[k \in ks |-> "metadata"] : ks \in SUBSET MetadataKeys}

\* config.requestHeaders
RequestHeaders ==
    {[k \in ks |-> "requestHeaders"] : ks \in SUBSET {"User-Agent", "X-Trace"}}

\* init.body as the SDK passes it: a JSON object in a string, a string that
\* is not JSON, or no body
SdkBodies ==
    {[kind |-> "json", fields |-> [k \in ks |-> "sdk"]] :
        ks \in SUBSET {"model", "temperature"}}
    \cup {[kind |-> "unparseable", fields |-> <<>>],
          [kind |-> "none", fields |-> <<>>]}

\* init.headers as the SDK passes them, a record of header names in the
\* spelling of the SDK
SdkHeaders ==
    {[k \in ks |-> "sdk"] : ks \in SUBSET {"user-agent", "User-Agent", "authorization"}}

SdkMethods == {"POST", "post", "GET"}

\* method.toUpperCase()
UpperMethod(method) == IF method = "post" THEN "POST" ELSE method

\* { ...a, ...b }
Spread(a, b) ==
    [k \in DOMAIN a \cup DOMAIN b |-> IF k \in DOMAIN b THEN b[k] ELSE a[k]]

\* ai-sdk-check.ts:293-296, the headers createModel builds
createModelHeaders(requestHeaders) ==
    Spread([k \in {"User-Agent"} |-> "check-cx/0.1.0"], requestHeaders)

\* every metadata key passed on
injectableParamsUnfiltered(metadata) == metadata

\* ai-sdk-check.ts:211-220
injectableParams(metadata) ==
    [k \in DOMAIN metadata \ EXCLUDED_KEYS |-> metadata[k]]

\* ai-sdk-check.ts:232-265, the request the custom fetch hands to fetch for
\* the call fetch(input, init)
customFetch(params, overrideHeaders, init) ==
    IF UpperMethod(init.method) = "POST" /\ init.body.kind # "none"
    THEN IF init.body.kind = "unparseable" THEN init
         ELSE [init EXCEPT
                  !.headers = IF DOMAIN overrideHeaders # {}
                              THEN Spread(init.headers, overrideHeaders)
                              ELSE init.headers,
                  !.body = [kind |-> "json",
                            fields |-> IF DOMAIN params # {}
                                       THEN Spread(init.body.fields, params)
                                       ELSE init.body.fields]]
    ELSE init

NoFetch == [params |-> <<>>, overrideHeaders |-> <<>>, sent |-> <<>>]

\* ai-sdk-check.ts:291-304, createModel builds the headers and the custom
\* fetch for the configuration
CreateFetch ==
    /\ callPc = "called"
    /\ callPc' = "fetch"
    /\ callResult' =
          [callResult EXCEPT
              !.params = injectableParams(callArgs.metadata),
              !.overrideHeaders = createModelHeaders(callArgs.requestHeaders)]
    /\ UNCHANGED callArgs

\* ai-sdk-check.ts:232-265, the SDK calls the custom fetch
FetchCall ==
    /\ callPc = "fetch"
    /\ callPc' = "sent"
    /\ callResult' =
          [callResult EXCEPT
              !.sent = customFetch(callResult.params, callResult.overrideHeaders,
                                   callArgs.init)]
    /\ UNCHANGED callArgs

FetchNext == CreateFetch \/ FetchCall

\* ------------------------------------------------------------ C36
\* header names are the same whatever their case
C36_HeaderName(k) == IF k = "User-Agent" THEN "user-agent" ELSE k

\* the request is a POST with a body that parses
C36_Rewritten ==
    /\ UpperMethod(callArgs.init.method) = "POST"
    /\ callArgs.init.body.kind = "json"

\* no reserved metadata key reaches the body that is sent; every other
\* metadata key is in the body of a POST request with its metadata value and
\* the other fields are those of the SDK; a body that does not parse is sent
\* as the SDK gave it
C36_BodyInjection ==
    callPc = "sent" =>
        /\ callResult.sent.body.kind = "json" =>
              \A k \in DOMAIN callResult.sent.body.fields :
                  IF k \in DOMAIN callArgs.metadata \ EXCLUDED_KEYS /\ C36_Rewritten
                  THEN callResult.sent.body.fields[k] = "metadata"
                  ELSE /\ k \in DOMAIN callArgs.init.body.fields
                       /\ callResult.sent.body.fields[k] = "sdk"
        /\ C36_Rewritten =>
              DOMAIN callResult.sent.body.fields =
                  DOMAIN callArgs.init.body.fields
                      \cup (DOMAIN callArgs.metadata \ EXCLUDED_KEYS)
        /\ callArgs.init.body.kind = "unparseable" =>
              callResult.sent = callArgs.init

\* C36: the metadata keys model, prompt, messages and abortSignal are never
\* injected into the body; every other metadata key is merged into the body
\* of each POST request over a field of the same name; in the request that is
\* sent no header with the name of a configured header (the default
\* User-Agent and requestHeaders) carries a value of the SDK; a body that is
\* not JSON is sent unmodified.
C36_InjectionAndOverride ==
    /\ C36_BodyInjection
    /\ (callPc = "sent" /\ C36_Rewritten) =>
          \A h \in DOMAIN callResult.overrideHeaders :
              \A k \in DOMAIN callResult.sent.headers :
                  C36_HeaderName(k) = C36_HeaderName(h) =>
                      callResult.sent.headers[k] = callResult.overrideHeaders[h]

\* ------------------------------------------------------------ C37
\* C37: however often the poller module is evaluated, only the first
\* evaluation calls tick() and registers an interval timer: there is never
\* more than one timer, the handle is set exactly when the timer exists, and
\* a later evaluation leaves the handle, the timer, the running flag, the
\* start time and every tick as they are.
C37_OnePollerPerProcess ==
    /\ [](timers <= 1 /\ (poller <=> timers = 1))
    /\ [][evals' = evals + 1 =>
             IF evals = 0
             THEN /\ timers' = 1 /\ poller'
                  /\ invocations' = 1
                  /\ tk'[1].pc = "config"
             ELSE UNCHANGED <<poller, timers, running, lastStartedAt,
                              invocations, tk, checksCalls>>]_vars

\* C37 witness: the module was evaluated a second time while the tick of the
\* first evaluation was still in flight; there is one timer, one tick and the
\* flag is still set
C37_Witness ==
    /\ evals = 2
    /\ timers = 1
    /\ poller
    /\ invocations = 1
    /\ running
    /\ tk[1].pc = "checks"

\* =========================================================================
\*                         STATUS-COUNT SUMMARY
\* =========================================================================
\* the batches a tick may summarise: the statuses of its results
ResultBatches == UNION {[1..n -> Statuses] : n \in 1..MaxResults}

\* the value NaN of a count
NaN == -1

\* v + 1 for a count v that is a number, NaN or undefined (a missing key)
PlusOne(counts, key) ==
    IF key \notin DOMAIN counts \/ counts[key] = NaN THEN NaN ELSE counts[key] + 1

\* poller.ts:74-78
InitialCounts == [k \in {"operational", "degraded", "failed"} |-> 0]

\* poller.ts:79-81, results.forEach(result => statusCounts[result.status] += 1)
RECURSIVE statusCounts(_, _)
statusCounts(counts, results) ==
    IF results = <<>> THEN counts
    ELSE statusCounts(
             [k \in DOMAIN counts \cup {results[1]} |->
                 IF k = results[1] THEN PlusOne(counts, k) ELSE counts[k]],
             Tail(results))

NoSummary == [operational |-> 0, degraded |-> 0, failed |-> 0]

\* poller.ts:74-92, the counts written in the summary line
LogSummary ==
    /\ callPc = "called"
    /\ callPc' = "logged"
    /\ callResult' =
          LET counts == statusCounts(InitialCounts, callArgs.results)
          IN  [operational |-> counts["operational"],
               degraded |-> counts["degraded"],
               failed |-> counts["failed"]]
    /\ UNCHANGED callArgs

SummaryNext == LogSummary

\* ------------------------------------------------------------ C38
\* C38: the operational, degraded and failed counts of the summary add up to
\* the number of results of the batch, whatever statuses the results carry.
C38_CountsCoverBatch ==
    callPc = "logged" =>
        callResult.operational + callResult.degraded + callResult.failed
            = Len(callArgs.results)

\* the same for batches of operational, degraded and failed results only
C38_ThreeStatusBatches ==
    (callPc = "logged"
     /\ \A k \in 1..Len(callArgs.results) :
            callArgs.results[k] \in {"operational", "degraded", "failed"}) =>
        callResult.operational + callResult.degraded + callResult.failed
            = Len(callArgs.results)

\* ------------------------------------------------------------ specifications
Init ==
    /\ PollerInit
    /\ CheckIdle
    /\ StreamIdle
    /\ TuneIdle
    /\ CacheIdle
    /\ StatusIdle
    /\ FrameIdle
    /\ ChunkIdle
    /\ CallIdle
    /\ envDegraded = 0
    /\ cfgs = <<>>

Next == PollerNext /\ UNCHANGED <<checkVars, streamVars, auxVars>>

\* the poller, with every provider check reduced to the status it returns
Spec == Init /\ [][Next]_vars

\* the poller with collaborators that settle: a pending runProviderChecks()
\* or appendHistory() promise is eventually resolved or rejected
LiveSpec ==
    /\ Init
    /\ [][Next]_vars
    /\ WF_vars(PollerSettle /\ UNCHANGED <<checkVars, streamVars, auxVars>>)

CheckInit ==
    /\ PollerInit
    /\ CheckIdle
    /\ StreamIdle
    /\ TuneIdle
    /\ CacheIdle
    /\ StatusIdle
    /\ FrameIdle
    /\ ChunkIdle
    /\ CallIdle
    /\ envDegraded \in EnvThresholds
    /\ cfgs \in Batches

CheckStep == CheckNext /\ UNCHANGED <<streamVars, auxVars>>

\* one batch of provider checks in full
CheckSpec == CheckInit /\ [][CheckStep]_vars

\* a batch whose checks make progress: timers fire, pings settle and the
\* continuations of the awaits run
CheckLiveSpec ==
    /\ CheckInit
    /\ [][CheckStep]_vars
    /\ \A i \in Providers :
          WF_vars(CheckProgress(i) /\ UNCHANGED <<streamVars, auxVars>>)

StreamInit ==
    /\ PollerInit
    /\ CheckIdle
    /\ envDegraded = 0
    /\ cfgs = <<>>
    /\ events \in Streams
    /\ handled = <<>>
    /\ parserText = NullText
    /\ lastPayload = NoPayload
    /\ returned = NullText
    /\ TuneIdle
    /\ CacheIdle
    /\ StatusIdle
    /\ FrameIdle
    /\ ChunkIdle
    /\ CallIdle

StreamStep == StreamNext /\ UNCHANGED auxVars

\* the event-stream parser over every stream of at most MaxEvents payloads
StreamSpec == StreamInit /\ [][StreamStep]_vars

\* the process starts: the modules are evaluated with the environment as it
\* is then, and the poller registers its interval timer (poller.ts:100-108)
TuneInit ==
    /\ PollerInit
    /\ CheckIdle
    /\ StreamIdle
    /\ envDegraded = 0
    /\ cfgs = <<>>
    /\ env \in [threshold : TuneThresholds, interval : TuneIntervals]
    /\ loadedThreshold = readThreshold(env.threshold)
    /\ instances = {readThreshold(env.threshold)}
    /\ loadedInterval = getPollingIntervalMs(env.interval)
    /\ registeredInterval = getPollingIntervalMs(env.interval)
    /\ pendingCheck = NoCheck
    /\ lastCheck = NoCheck
    /\ lastSchedule = NoSchedule
    /\ CacheIdle
    /\ StatusIdle
    /\ FrameIdle
    /\ ChunkIdle
    /\ CallIdle

TuneStep ==
    TuneNext /\ UNCHANGED <<pollerVars, checkVars, streamVars, cacheVars, statusVars,
                            frameVars, chunkVars, callVars>>

\* the tunables over a running process
TuneSpec == TuneInit /\ [][TuneStep]_vars

CacheInit ==
    /\ PollerInit
    /\ CheckIdle
    /\ StreamIdle
    /\ TuneIdle
    /\ CacheIdle
    /\ StatusIdle
    /\ FrameIdle
    /\ ChunkIdle
    /\ CallIdle
    /\ envDegraded = 0
    /\ cfgs = <<>>

CacheStep ==
    CacheNext /\ UNCHANGED <<pollerVars, checkVars, streamVars, tuneVars, statusVars,
                             frameVars, chunkVars, callVars>>

\* the client cache under every sequence of getGeminiClient calls
CacheSpec == CacheInit /\ [][CacheStep]_vars

StatusInit ==
    /\ PollerInit
    /\ CheckIdle
    /\ StreamIdle
    /\ TuneIdle
    /\ CacheIdle
    /\ StatusIdle
    /\ FrameIdle
    /\ ChunkIdle
    /\ CallIdle
    /\ envDegraded = 0
    /\ cfgs = <<>>

StatusStep ==
    StatusNext /\ UNCHANGED <<pollerVars, checkVars, streamVars, tuneVars, cacheVars,
                              frameVars, chunkVars, callVars>>

\* one call of checkGeminiStatus under every response
StatusSpec == StatusInit /\ [][StatusStep]_vars

FrameInit ==
    /\ PollerInit
    /\ CheckIdle
    /\ envDegraded = 0
    /\ cfgs = <<>>
    /\ StreamIdle
    /\ TuneIdle
    /\ CacheIdle
    /\ StatusIdle
    /\ lines \in LineBodies
    /\ eventDataLines = <<>>
    /\ flushed = <<>>
    /\ ChunkIdle
    /\ CallIdle

FrameStep ==
    FrameNext /\ UNCHANGED <<pollerVars, checkVars, events, tuneVars, cacheVars,
                             statusVars, chunkVars, callVars>>

\* the line framing over every body of at most MaxLines lines
FrameSpec == FrameInit /\ [][FrameStep]_vars

ChunkInit ==
    /\ PollerInit
    /\ CheckIdle
    /\ envDegraded = 0
    /\ cfgs = <<>>
    /\ StreamIdle
    /\ TuneIdle
    /\ CacheIdle
    /\ StatusIdle
    /\ FrameIdle
    /\ rawBody \in ChunkBodies
    /\ unread = rawBody
    /\ buffer = <<>>
    /\ CallIdle

ChunkStep ==
    ChunkNext /\ UNCHANGED <<pollerVars, checkVars, events, tuneVars, cacheVars,
                             statusVars, lines, callVars>>

\* the parser over every body of at most MaxBodyLen tokens, delivered in
\* chunks of any sizes
ChunkSpec == ChunkInit /\ [][ChunkStep]_vars

ResolveInit ==
    /\ PollerInit
    /\ CheckIdle
    /\ envDegraded = 0
    /\ cfgs = <<>>
    /\ StreamIdle
    /\ TuneIdle
    /\ CacheIdle
    /\ StatusIdle
    /\ FrameIdle
    /\ ChunkIdle
    /\ callPc = "called"
    /\ callArgs \in [endpoint : ResolveEndpoints, model : {<<"m">>}]
    /\ callResult = NoUrls

CallFrame ==
    UNCHANGED <<pollerVars, checkVars, streamVars, tuneVars, cacheVars, statusVars,
                frameVars, chunkVars>>

\* the request urls of the two attempts over every endpoint of at most
\* MaxUrlLen pieces
ResolveSpec == ResolveInit /\ [][ResolveNext /\ CallFrame]_vars

ExtractInit ==
    /\ PollerInit
    /\ CheckIdle
    /\ envDegraded = 0
    /\ cfgs = <<>>
    /\ StreamIdle
    /\ TuneIdle
    /\ CacheIdle
    /\ StatusIdle
    /\ FrameIdle
    /\ ChunkIdle
    /\ callPc = "called"
    /\ callArgs \in [payload : JsonPayloads]
    /\ callResult = NullText

\* extractGeminiText called once on every payload of JsonPayloads
ExtractSpec == ExtractInit /\ [][ExtractNext /\ CallFrame]_vars

DirectiveInit ==
    /\ PollerInit
    /\ CheckIdle
    /\ envDegraded = 0
    /\ cfgs = <<>>
    /\ StreamIdle
    /\ TuneIdle
    /\ CacheIdle
    /\ StatusIdle
    /\ FrameIdle
    /\ ChunkIdle
    /\ callPc = "called"
    /\ callArgs \in [type : SupportedTypes, model : ModelStrings]
    /\ callResult = NoDirective

\* createModel and buildReasoningOptions for every configuration type and
\* every model string of at most MaxModelLen pieces
DirectiveSpec == DirectiveInit /\ [][DirectiveNext /\ CallFrame]_vars

FetchInit ==
    /\ PollerInit
    /\ CheckIdle
    /\ envDegraded = 0
    /\ cfgs = <<>>
    /\ StreamIdle
    /\ TuneIdle
    /\ CacheIdle
    /\ StatusIdle
    /\ FrameIdle
    /\ ChunkIdle
    /\ callPc = "called"
    /\ callArgs \in [metadata : Metadatas, requestHeaders : RequestHeaders,
                     init : [method : SdkMethods, headers : SdkHeaders,
                             body : SdkBodies]]
    /\ callResult = NoFetch

\* createModel's fetch for every configuration and every request of the SDK
FetchSpec == FetchInit /\ [][FetchNext /\ CallFrame]_vars

SummaryInit ==
    /\ PollerInit
    /\ CheckIdle
    /\ envDegraded = 0
    /\ cfgs = <<>>
    /\ StreamIdle
    /\ TuneIdle
    /\ CacheIdle
    /\ StatusIdle
    /\ FrameIdle
    /\ ChunkIdle
    /\ callPc = "called"
    /\ callArgs \in [results : ResultBatches]
    /\ callResult = NoSummary

\* the summary of a tick for every batch of at most MaxResults results
SummarySpec == SummaryInit /\ [][SummaryNext /\ CallFrame]_vars

====
